---------------------------- MODULE Spec2Model ----------------------------
(***************************************************************************)
(* Negative-keyword conflict detection of the Google Ads scripts: the MCC  *)
(* variant (MCC Negative Keyword Conflict Finder) and the single-account   *)
(* variant (single-acc-neg-kw-conflicts.js).                               *)
(*                                                                         *)
(* A JavaScript string is a sequence of one-character strings, so that     *)
(* trimming, splitting, wrapping and searching are computed, not assumed.  *)
(* The empty sequence stands for the empty string and for a missing        *)
(* (undefined) field alike: both are falsy in every test the code makes.   *)
(***************************************************************************)
EXTENDS Integers, Sequences, FiniteSets, TLC

VARIABLES
    pc,              \* position of the run
    text,            \* normalizer input: keyword text
    matchType,       \* normalizer input: match type as delivered by the source
    normalized,      \* normalizeKeyword(text, matchType), MCC variant
    normalizedSingle,\* normalizeKeyword(text, matchType), single-account variant
    renormalized,    \* MCC normalizeKeyword applied again to the raw text
    renormalizedSingle,
    negative,        \* blocking rule input: a normalized negative keyword
    positive,        \* blocking rule input: a normalized positive keyword
    blocks,          \* negativeBlocksPositive(negative, positive), MCC variant
    blocksSingle,    \* the same, single-account variant
    variant,         \* which script runs: "MCC" or "SINGLE"
    cache,           \* the per-account data cache (index)
    rowsLeft,        \* source records the data source may still deliver
    conflictsOutput, \* rows returned by findConflicts
    source,          \* what the data source answers for the account selected
    accounts,        \* MCC: the accounts the account selector has still to yield
    selected,        \* MCC: the accounts selected so far, in order
    sheet,           \* the rows of the spreadsheet tab
    campaignsSheet,  \* Campaign Creator: the rows of the Campaigns tab
    runStateSheet,   \* Campaign Creator: cell A2 of the Run State tab
    run,             \* Campaign Creator: the locals of the run of main under way
    attempted        \* Campaign Creator: sheet rows handled since the last reset

vars == <<pc, text, matchType, normalized, normalizedSingle, renormalized,
          renormalizedSingle, negative, positive, blocks, blocksSingle,
          variant, cache, rowsLeft, conflictsOutput, source, accounts,
          selected, sheet, campaignsSheet, runStateSheet, run, attempted>>

\* the state of main and its sheet
mainVars == <<source, accounts, selected, sheet>>

\* the state of the MCC Campaign Creator
creatorVars == <<campaignsSheet, runStateSheet, run, attempted>>

\* the locals of main of the Campaign Creator when no run is under way
NoRun == [lastProcessedRow |-> 0, campaignData |-> <<>>, i |-> 0]

\* the Campaign Creator is a script of its own: the conflict scripts never
\* touch its tabs
NoCreator ==
    /\ campaignsSheet = <<>>
    /\ runStateSheet = 0
    /\ run = NoRun
    /\ attempted = <<>>

---------------------------------------------------------------------------
(* Bounds of the model *)

\* longest keyword text handed to the normalizer
MaxTextLen == 4
\* most tokens of a keyword handed to the blocking rule
MaxTokens == 3
\* source records the data source delivers to one account's pass, all fetches together
MaxRows == 3
\* accounts the account selector of an MCC run yields
MaxAccounts == 2

---------------------------------------------------------------------------
(* JavaScript strings *)

Whitespace == {" ", "\t"}

UpperCaseLetters == <<"A","B","C","D","E","F","G","H","I","J","K","L","M",
                      "N","O","P","Q","R","S","T","U","V","W","X","Y","Z">>
LowerCaseLetters == <<"a","b","c","d","e","f","g","h","i","j","k","l","m",
                      "n","o","p","q","r","s","t","u","v","w","x","y","z">>

Min(S) == CHOOSE x \in S : \A y \in S : x <= y
Max(S) == CHOOSE x \in S : \A y \in S : x >= y

Range(f) == {f[i] : i \in DOMAIN f}

\* the lower-case form of every upper-case letter, and the reverse
LowerOf == [c \in Range(UpperCaseLetters) |->
               LowerCaseLetters[CHOOSE i \in 1..Len(UpperCaseLetters) : UpperCaseLetters[i] = c]]
UpperOf == [c \in Range(LowerCaseLetters) |->
               UpperCaseLetters[CHOOSE i \in 1..Len(LowerCaseLetters) : LowerCaseLetters[i] = c]]

LowerChar(c) == IF c \in DOMAIN LowerOf THEN LowerOf[c] ELSE c
UpperChar(c) == IF c \in DOMAIN UpperOf THEN UpperOf[c] ELSE c

toLowerCase(s) == [i \in 1..Len(s) |-> LowerChar(s[i])]
toUpperCase(s) == [i \in 1..Len(s) |-> UpperChar(s[i])]

\* String.prototype.trim
trim(s) ==
    LET keep == {i \in 1..Len(s) : s[i] \notin Whitespace}
    IN  IF keep = {} THEN <<>> ELSE SubSeq(s, Min(keep), Max(keep))

startsWith(s, p) == Len(p) <= Len(s) /\ SubSeq(s, 1, Len(p)) = p
endsWith(s, p) == Len(p) <= Len(s) /\ SubSeq(s, Len(s) - Len(p) + 1, Len(s)) = p

\* String.prototype.substring(start, end): 0-based, arguments clamped to
\* [0, length] and swapped when start > end
substring(s, start, end) ==
    LET clamp(n) == IF n < 0 THEN 0 ELSE IF n > Len(s) THEN Len(s) ELSE n
        a == clamp(start)
        b == clamp(end)
        lo == IF a <= b THEN a ELSE b
        hi == IF a <= b THEN b ELSE a
    IN  SubSeq(s, lo + 1, hi)

\* String.prototype.indexOf(p) !== -1, also String.prototype.includes(p)
includes(s, p) == \E i \in 0..(Len(s) - Len(p)) : SubSeq(s, i + 1, i + Len(p)) = p

\* String.prototype.replace(p, r) with a string pattern: the first occurrence only
replaceFirst(s, p, r) ==
    IF includes(s, p)
    THEN LET i == Min({j \in 0..(Len(s) - Len(p)) : SubSeq(s, j + 1, j + Len(p)) = p})
         IN  SubSeq(s, 1, i) \o r \o SubSeq(s, i + Len(p) + 1, Len(s))
    ELSE s

\* String.prototype.split(' '): the pieces between single spaces, empty pieces kept
RECURSIVE split(_)
split(s) ==
    LET seps == {i \in 1..Len(s) : s[i] = " "}
    IN  IF seps = {} THEN <<s>>
        ELSE <<SubSeq(s, 1, Min(seps) - 1)>> \o split(SubSeq(s, Min(seps) + 1, Len(s)))

\* Array.prototype.join(sep)
RECURSIVE join(_, _)
join(parts, sep) ==
    IF parts = <<>> THEN <<>>
    ELSE IF Len(parts) = 1 THEN parts[1]
    ELSE parts[1] \o sep \o join(Tail(parts), sep)

\* replace(/\s+/g, ' '): every maximal run of whitespace becomes one space
RECURSIVE collapseWhitespace(_)
collapseWhitespace(s) ==
    IF s = <<>> THEN <<>>
    ELSE IF s[1] \in Whitespace
         THEN LET rest == {i \in 1..Len(s) : s[i] \notin Whitespace}
              IN  IF rest = {} THEN <<" ">>
                  ELSE <<" ">> \o collapseWhitespace(SubSeq(s, Min(rest), Len(s)))
         ELSE <<s[1]>> \o collapseWhitespace(Tail(s))

\* replace(/\+(\S+)/g, '$1'): scanning from the left, a '+' that is followed by
\* a non-whitespace character is dropped and the whole run of non-whitespace
\* characters after it is kept as it is; the scan resumes after that run
RECURSIVE stripPlusRegex(_)
stripPlusRegex(s) ==
    IF s = <<>> THEN <<>>
    ELSE IF s[1] = "+" /\ Len(s) >= 2 /\ s[2] \notin Whitespace
         THEN LET ws == {i \in 2..Len(s) : s[i] \in Whitespace}
                  stop == IF ws = {} THEN Len(s) + 1 ELSE Min(ws)
              IN  SubSeq(s, 2, stop - 1) \o stripPlusRegex(SubSeq(s, stop, Len(s)))
         ELSE <<s[1]>> \o stripPlusRegex(Tail(s))

---------------------------------------------------------------------------
(* Match types *)

EXACT == <<"E","X","A","C","T">>
PHRASE == <<"P","H","R","A","S","E">>
BROAD == <<"B","R","O","A","D">>
MATCH_SUFFIX == <<"_","M","A","T","C","H">>

CanonicalMatchTypes == {EXACT, PHRASE, BROAD}

---------------------------------------------------------------------------
(* Normalized keywords: { display, raw, matchType }, or null *)

Null == [null |-> TRUE, display |-> <<>>, raw |-> <<>>, matchType |-> <<>>]

Keyword(display, raw, mt) ==
    [null |-> FALSE, display |-> display, raw |-> raw, matchType |-> mt]

\* trimKeyword of the MCC variant
trimKeyword(t, open, close) ==
    IF startsWith(t, open) /\ endsWith(t, close)
    THEN trim(substring(t, Len(open), Len(t) - Len(close)))
    ELSE t

\* trimKeyword of the single-account variant
trimKeywordSingle(t, open, close) ==
    IF startsWith(t, open) /\ endsWith(t, close)
    THEN trim(substring(t, Len(open), Len(t) - Len(close)))
    ELSE t

\* mutant of normalizedMatchType: an unrecognized type is kept, not defaulted
normalizedMatchTypeNoDefault(mt) ==
    replaceFirst(toUpperCase(mt), MATCH_SUFFIX, <<>>)

\* the canonical match type: upper case, first '_MATCH' removed, BROAD when
\* the result is not one of the three
normalizedMatchType(mt) ==
    LET n == replaceFirst(toUpperCase(mt), MATCH_SUFFIX, <<>>)
    IN  IF n \in CanonicalMatchTypes THEN n ELSE BROAD

\* the display text: the raw text wrapped according to the canonical match type
displayOf(raw, nmt) ==
    IF nmt = PHRASE THEN <<"\"">> \o raw \o <<"\"">>
    ELSE IF nmt = EXACT THEN <<"[">> \o raw \o <<"]">>
    ELSE raw

\* raw.split(' ').map(word => word.startsWith('+') ? word.substring(1) : word).join(' ')
stripPlusWords(raw) ==
    LET words == split(raw)
        stripped == [i \in 1..Len(words) |->
                        IF startsWith(words[i], <<"+">>)
                        THEN substring(words[i], 1, Len(words[i]))
                        ELSE words[i]]
    IN  join(stripped, <<" ">>)

\* mutant of normalizeKeyword: the raw text is not lowercased
normalizeKeywordKeepCase(t, mt) ==
    IF t = <<>> \/ trim(t) = <<>> THEN Null
    ELSE IF mt = <<>> THEN Null
    ELSE LET nmt == normalizedMatchType(mt)
             raw0 == trim(t)
             raw1 == IF includes(toUpperCase(mt), PHRASE)
                     THEN trimKeyword(raw0, <<"\"">>, <<"\"">>)
                     ELSE IF includes(toUpperCase(mt), EXACT)
                          THEN trimKeyword(raw0, <<"[">>, <<"]">>)
                          ELSE raw0
             raw2 == stripPlusWords(raw1)
             raw == trim(collapseWhitespace(raw2))
         IN  IF raw = <<>> THEN Null
             ELSE Keyword(displayOf(raw, nmt), raw, nmt)

\* normalizeKeyword of the MCC variant
normalizeKeyword(t, mt) ==
    IF t = <<>> \/ trim(t) = <<>> THEN Null
    ELSE IF mt = <<>> THEN Null
    ELSE LET nmt == normalizedMatchType(mt)
             raw0 == trim(t)
             raw1 == IF includes(toUpperCase(mt), PHRASE)
                     THEN trimKeyword(raw0, <<"\"">>, <<"\"">>)
                     ELSE IF includes(toUpperCase(mt), EXACT)
                          THEN trimKeyword(raw0, <<"[">>, <<"]">>)
                          ELSE raw0
             raw2 == stripPlusWords(raw1)
             raw3 == trim(collapseWhitespace(raw2))
             raw == toLowerCase(raw3)
         IN  IF raw = <<>> THEN Null
             ELSE Keyword(displayOf(raw, nmt), raw, nmt)

\* normalizeKeyword of the single-account variant
normalizeKeywordSingle(t, mt) ==
    IF t = <<>> \/ trim(t) = <<>> THEN Null
    ELSE IF mt = <<>> THEN Null
    ELSE LET nmt == normalizedMatchType(mt)
             raw0 == trim(t)
             raw1 == IF nmt = PHRASE
                     THEN trimKeywordSingle(raw0, <<"\"">>, <<"\"">>)
                     ELSE IF nmt = EXACT
                          THEN trimKeywordSingle(raw0, <<"[">>, <<"]">>)
                          ELSE raw0
             raw2 == stripPlusRegex(raw1)
             raw3 == trim(collapseWhitespace(raw2))
             raw == toLowerCase(raw3)
         IN  IF raw = <<>> THEN Null
             ELSE Keyword(displayOf(raw, nmt), raw, nmt)

---------------------------------------------------------------------------
(* The match-type blocking rule *)

nonEmptyTokens(s) == SelectSeq(split(s), LAMBDA t : t /= <<>>)

\* mutant of hasAllTokens: a token of the needle is looked for as a substring
\* of the haystack, not among its tokens
hasAllTokensBySubstring(keywordText1, keywordText2) ==
    IF keywordText1 = <<>> THEN TRUE
    ELSE IF keywordText2 = <<>> THEN FALSE
    ELSE LET tokens1 == nonEmptyTokens(keywordText1)
         IN  \A i \in 1..Len(tokens1) : includes(keywordText2, tokens1[i])

\* a token test that also asks every token of the haystack to be in the needle
hasAllTokensBothWays(keywordText1, keywordText2) ==
    IF keywordText1 = <<>> THEN TRUE
    ELSE IF keywordText2 = <<>> THEN FALSE
    ELSE Range(nonEmptyTokens(keywordText1)) = Range(nonEmptyTokens(keywordText2))

\* hasAllTokens of the MCC variant
hasAllTokens(keywordText1, keywordText2) ==
    IF keywordText1 = <<>> THEN TRUE
    ELSE IF keywordText2 = <<>> THEN FALSE
    ELSE LET tokens1 == nonEmptyTokens(keywordText1)
             tokenSet2 == Range(nonEmptyTokens(keywordText2))
         IN  IF Len(tokens1) = 0 THEN TRUE
             ELSE \A i \in 1..Len(tokens1) : tokens1[i] \in tokenSet2

\* hasAllTokens of the single-account variant
hasAllTokensSingle(keywordText1, keywordText2) ==
    IF keywordText1 = <<>> \/ keywordText2 = <<>> THEN FALSE
    ELSE LET tokens1 == split(keywordText1)
             tokenSet2 == Range(split(keywordText2))
         IN  \A i \in 1..Len(tokens1) : tokens1[i] \in tokenSet2

\* mutant of isSubsequence: the two texts are not padded with spaces
isSubsequenceUnpadded(keywordText1, keywordText2) ==
    IF keywordText1 = <<>> THEN TRUE
    ELSE IF keywordText2 = <<>> THEN FALSE
    ELSE includes(keywordText2, keywordText1)

\* isSubsequence of the MCC variant
isSubsequence(keywordText1, keywordText2) ==
    IF keywordText1 = <<>> THEN TRUE
    ELSE IF keywordText2 = <<>> THEN FALSE
    ELSE includes(<<" ">> \o keywordText2 \o <<" ">>, <<" ">> \o keywordText1 \o <<" ">>)

\* isSubsequence of the single-account variant
isSubsequenceSingle(keywordText1, keywordText2) ==
    IF keywordText1 = <<>> \/ keywordText2 = <<>> THEN FALSE
    ELSE includes(<<" ">> \o keywordText2 \o <<" ">>, <<" ">> \o keywordText1 \o <<" ">>)

\* mutant of negativeBlocksPositive: an EXACT negative blocks only an EXACT positive
negativeBlocksPositiveExactOnlyExact(neg, pos) ==
    IF neg.null \/ pos.null THEN FALSE
    ELSE IF neg.matchType = EXACT THEN pos.matchType = EXACT /\ pos.raw = neg.raw
    ELSE IF neg.matchType = PHRASE
         THEN IF pos.matchType = EXACT
              THEN pos.raw = neg.raw
              ELSE isSubsequence(neg.raw, pos.raw)
    ELSE IF neg.matchType = BROAD THEN hasAllTokens(neg.raw, pos.raw)
    ELSE FALSE

\* negativeBlocksPositive of the MCC variant; a null keyword is answered with false
negativeBlocksPositive(neg, pos) ==
    IF neg.null \/ pos.null THEN FALSE
    ELSE IF neg.matchType = EXACT THEN pos.raw = neg.raw
    ELSE IF neg.matchType = PHRASE
         THEN IF pos.matchType = EXACT
              THEN pos.raw = neg.raw
              ELSE isSubsequence(neg.raw, pos.raw)
    ELSE IF neg.matchType = BROAD THEN hasAllTokens(neg.raw, pos.raw)
    ELSE FALSE

\* negativeBlocksPositive of the single-account variant, for two keyword
\* objects; it has no guard, and reading a property of null raises a TypeError
\* (see comparisonThrowsSingle)
negativeBlocksPositiveSingle(neg, pos) ==
    IF neg.matchType = EXACT THEN pos.raw = neg.raw
    ELSE IF neg.matchType = PHRASE
         THEN IF pos.matchType = EXACT
              THEN pos.raw = neg.raw
              ELSE isSubsequenceSingle(neg.raw, pos.raw)
    ELSE IF neg.matchType = BROAD THEN hasAllTokensSingle(neg.raw, pos.raw)
    ELSE FALSE

\* single-account variant: negative.matchType, positive.raw or
\* positive.matchType is read from null
comparisonThrowsSingle(neg, pos) == neg.null \/ pos.null

---------------------------------------------------------------------------
(* The data cache (index) and the fetch loops.  cache.campaigns maps a      *)
(* campaign id to { name, adGroups, negatives, sharedListNegatives },       *)
(* cache.sharedLists maps a list id to { name, negatives }.  An id that is  *)
(* 0 and a text or name that is <<>> stand for a missing field.             *)

newCampaign(name) ==
    [name |-> name, adGroups |-> <<>>, negatives |-> <<>>, sharedListNegatives |-> <<>>]

newAdGroup(name) == [name |-> name, positives |-> <<>>, negatives |-> <<>>]

\* a loop body that takes every flag other than false for a negative
fetchKeywordsRowFlagNotFalse(c, row) ==
    IF row.campaignId = 0 \/ row.adGroupId = 0 \/ row.text = <<>> \/ row.matchType = <<>>
    THEN c
    ELSE LET c1 == IF row.campaignId \in DOMAIN c.campaigns THEN c
                   ELSE [c EXCEPT !.campaigns =
                            @ @@ (row.campaignId :> newCampaign(row.campaignName))]
             c2 == IF row.adGroupId \in DOMAIN c1.campaigns[row.campaignId].adGroups THEN c1
                   ELSE [c1 EXCEPT !.campaigns[row.campaignId].adGroups =
                            @ @@ (row.adGroupId :> newAdGroup(row.adGroupName))]
             normalizedKeyword == normalizeKeyword(row.text, row.matchType)
         IN  IF normalizedKeyword.null THEN c2
             ELSE IF row.negative /= "false"
                  THEN [c2 EXCEPT !.campaigns[row.campaignId].adGroups[row.adGroupId].negatives =
                           Append(@, normalizedKeyword)]
                  ELSE [c2 EXCEPT !.campaigns[row.campaignId].adGroups[row.adGroupId].positives =
                           Append(@, normalizedKeyword)]

\* fetchKeywords, MCC variant: the body of the loop for one row
fetchKeywordsRow(c, row) ==
    IF row.campaignId = 0 \/ row.adGroupId = 0 \/ row.text = <<>> \/ row.matchType = <<>>
    THEN c
    ELSE LET c1 == IF row.campaignId \in DOMAIN c.campaigns THEN c
                   ELSE [c EXCEPT !.campaigns =
                            @ @@ (row.campaignId :> newCampaign(row.campaignName))]
             c2 == IF row.adGroupId \in DOMAIN c1.campaigns[row.campaignId].adGroups THEN c1
                   ELSE [c1 EXCEPT !.campaigns[row.campaignId].adGroups =
                            @ @@ (row.adGroupId :> newAdGroup(row.adGroupName))]
             normalizedKeyword == normalizeKeyword(row.text, row.matchType)
         IN  IF normalizedKeyword.null THEN c2
             ELSE IF row.negative = "true"
                  THEN [c2 EXCEPT !.campaigns[row.campaignId].adGroups[row.adGroupId].negatives =
                           Append(@, normalizedKeyword)]
                  ELSE [c2 EXCEPT !.campaigns[row.campaignId].adGroups[row.adGroupId].positives =
                           Append(@, normalizedKeyword)]

\* fetchKeywords, single-account variant: the result of normalizeKeyword is
\* stored without a test for null
fetchKeywordsRowSingle(c, row) ==
    IF row.campaignId = 0 \/ row.adGroupId = 0 \/ row.text = <<>> \/ row.matchType = <<>>
    THEN c
    ELSE LET c1 == IF row.campaignId \in DOMAIN c.campaigns THEN c
                   ELSE [c EXCEPT !.campaigns =
                            @ @@ (row.campaignId :> newCampaign(row.campaignName))]
             c2 == IF row.adGroupId \in DOMAIN c1.campaigns[row.campaignId].adGroups THEN c1
                   ELSE [c1 EXCEPT !.campaigns[row.campaignId].adGroups =
                            @ @@ (row.adGroupId :> newAdGroup(row.adGroupName))]
             normalizedKeyword == normalizeKeywordSingle(row.text, row.matchType)
         IN  IF row.negative = "true"
             THEN [c2 EXCEPT !.campaigns[row.campaignId].adGroups[row.adGroupId].negatives =
                      Append(@, normalizedKeyword)]
             ELSE [c2 EXCEPT !.campaigns[row.campaignId].adGroups[row.adGroupId].positives =
                      Append(@, normalizedKeyword)]

\* a loop body that makes an entry for a campaign it does not find
fetchCampaignNegativesRowCreates(c, row) ==
    IF row.campaignId = 0 \/ row.text = <<>> \/ row.matchType = <<>> THEN c
    ELSE LET c1 == IF row.campaignId \in DOMAIN c.campaigns THEN c
                   ELSE [c EXCEPT !.campaigns = @ @@ (row.campaignId :> newCampaign(<<>>))]
             normalizedKeyword == normalizeKeyword(row.text, row.matchType)
         IN  IF normalizedKeyword.null THEN c1
             ELSE [c1 EXCEPT !.campaigns[row.campaignId].negatives =
                      Append(@, normalizedKeyword)]

\* fetchCampaignNegatives, MCC variant: one row
fetchCampaignNegativesRow(c, row) ==
    IF row.campaignId = 0 \/ row.text = <<>> \/ row.matchType = <<>> THEN c
    ELSE IF row.campaignId \in DOMAIN c.campaigns
         THEN LET normalizedKeyword == normalizeKeyword(row.text, row.matchType)
              IN  IF normalizedKeyword.null THEN c
                  ELSE [c EXCEPT !.campaigns[row.campaignId].negatives =
                           Append(@, normalizedKeyword)]
         ELSE c

\* fetchCampaignNegatives, single-account variant: one row
fetchCampaignNegativesRowSingle(c, row) ==
    IF row.campaignId = 0 \/ row.text = <<>> \/ row.matchType = <<>> THEN c
    ELSE IF row.campaignId \in DOMAIN c.campaigns
         THEN [c EXCEPT !.campaigns[row.campaignId].negatives =
                  Append(@, normalizeKeywordSingle(row.text, row.matchType))]
         ELSE c

\* fetchSharedNegativeLists, MCC variant, first loop: one shared-list keyword row
fetchSharedListRow(c, row) ==
    IF row.listId = <<>> \/ row.listName = <<>> \/ row.text = <<>> \/ row.matchType = <<>>
    THEN c
    ELSE LET c1 == IF row.listId \in DOMAIN c.sharedLists THEN c
                   ELSE [c EXCEPT !.sharedLists =
                            @ @@ (row.listId :> [name |-> row.listName, negatives |-> <<>>])]
             normalizedKeyword == normalizeKeyword(row.text, row.matchType)
         IN  IF normalizedKeyword.null THEN c1
             ELSE [c1 EXCEPT !.sharedLists[row.listId].negatives =
                      Append(@, normalizedKeyword)]

\* fetchSharedNegativeLists, single-account variant, first loop: one row
fetchSharedListRowSingle(c, row) ==
    IF row.listId = <<>> \/ row.listName = <<>> \/ row.text = <<>> \/ row.matchType = <<>>
    THEN c
    ELSE LET c1 == IF row.listId \in DOMAIN c.sharedLists THEN c
                   ELSE [c EXCEPT !.sharedLists =
                            @ @@ (row.listId :> [name |-> row.listName, negatives |-> <<>>])]
         IN  [c1 EXCEPT !.sharedLists[row.listId].negatives =
                 Append(@, normalizeKeywordSingle(row.text, row.matchType))]

Digits == {"0", "1", "2", "3", "4", "5", "6", "7", "8", "9"}

SHARED_SETS == <<"s","h","a","r","e","d","S","e","t","s","/">>

\* a match without the anchor at the end: the digits that follow the first
\* 'sharedSets/' of the name
listIdMatchUnanchored(resourceName) ==
    LET at == {i \in 0..(Len(resourceName) - Len(SHARED_SETS) - 1) :
                  /\ SubSeq(resourceName, i + 1, i + Len(SHARED_SETS)) = SHARED_SETS
                  /\ resourceName[i + Len(SHARED_SETS) + 1] \in Digits}
    IN  IF at = {} THEN <<>>
        ELSE LET from == Min(at) + Len(SHARED_SETS) + 1
                 to == Max({k \in from..Len(resourceName) :
                               \A j \in from..k : resourceName[j] \in Digits})
             IN  SubSeq(resourceName, from, to)

\* sharedSetResourceName.match(/sharedSets\/(\d+)$/): the digits captured, or
\* <<>> when the name does not end in 'sharedSets/<digits>'
listIdMatch(resourceName) ==
    LET at == {i \in 0..(Len(resourceName) - Len(SHARED_SETS) - 1) :
                  /\ SubSeq(resourceName, i + 1, i + Len(SHARED_SETS)) = SHARED_SETS
                  /\ \A k \in (i + Len(SHARED_SETS) + 1)..Len(resourceName) :
                        resourceName[k] \in Digits}
    IN  IF at = {} THEN <<>>
        ELSE SubSeq(resourceName, Min(at) + Len(SHARED_SETS) + 1, Len(resourceName))

\* fetchSharedNegativeLists, second loop (the same in both variants): one
\* campaign-to-list association row
fetchAssociationRow(c, row) ==
    IF row.campaignId = 0 \/ row.sharedSet = <<>> THEN c
    ELSE LET listId == listIdMatch(row.sharedSet)
         IN  IF listId = <<>> THEN c
             ELSE IF row.campaignId \in DOMAIN c.campaigns /\ listId \in DOMAIN c.sharedLists
                  THEN LET refs == c.campaigns[row.campaignId].sharedListNegatives
                           alreadyAdded == \E i \in 1..Len(refs) : refs[i].listId = listId
                       IN  IF alreadyAdded THEN c
                           ELSE [c EXCEPT !.campaigns[row.campaignId].sharedListNegatives =
                                    Append(@, [listId |-> listId,
                                               listName |-> c.sharedLists[listId].name])]
                  ELSE c

\* fetchAccountNegatives (MCC variant only): one row
fetchAccountNegativesRow(c, row) ==
    IF row.text = <<>> \/ row.matchType = <<>> THEN c
    ELSE LET normalizedKeyword == normalizeKeyword(row.text, row.matchType)
         IN  IF normalizedKeyword.null THEN c
             ELSE [c EXCEPT !.accountNegatives = Append(@, normalizedKeyword)]

\* a row whose processing throws inside the try block of its loop
\* (report.next() fails)
rowThrows(row) == "throws" \in DOMAIN row

\* the body of the row loop of a fetch function
rowBody(loop, c, row) ==
    CASE loop = "fetchKeywords" -> fetchKeywordsRow(c, row)
      [] loop = "fetchKeywordsSingle" -> fetchKeywordsRowSingle(c, row)
      [] loop = "fetchCampaignNegatives" -> fetchCampaignNegativesRow(c, row)
      [] loop = "fetchCampaignNegativesSingle" -> fetchCampaignNegativesRowSingle(c, row)
      [] loop = "fetchSharedLists" -> fetchSharedListRow(c, row)
      [] loop = "fetchSharedListsSingle" -> fetchSharedListRowSingle(c, row)
      [] loop = "fetchAssociations" -> fetchAssociationRow(c, row)
      [] loop = "fetchAccountNegatives" -> fetchAccountNegativesRow(c, row)

RECURSIVE forEachRow(_, _, _)
\* a fetch loop over the rows of a report: the body is applied to the rows
\* in order; when a row throws, the catch block of the loop logs it and the
\* loop goes on
forEachRow(loop, c, rows) ==
    IF rows = <<>> THEN c
    ELSE IF rowThrows(Head(rows)) THEN forEachRow(loop, c, Tail(rows))
    ELSE forEachRow(loop, rowBody(loop, c, Head(rows)), Tail(rows))

\* what buildDataCache returns from its catch block
NullCache == [null |-> TRUE]
isNull(c) == "null" \in DOMAIN c

\* mutant of newCache: the cache object is created once and used again for
\* the next account with what it holds
newCacheLeftOver ==
    IF isNull(cache) THEN [campaigns |-> <<>>, sharedLists |-> <<>>, accountNegatives |-> <<>>]
    ELSE cache

\* const cache = { campaigns: {}, sharedLists: {}, accountNegatives: [] }
newCache == [campaigns |-> <<>>, sharedLists |-> <<>>, accountNegatives |-> <<>>]

\* the fetch functions over the rows the data source answers with
fetchKeywords(c, src) == forEachRow("fetchKeywords", c, src.keywordRows)

fetchKeywordsSingle(c, src) == forEachRow("fetchKeywordsSingle", c, src.keywordRows)

fetchCampaignNegatives(c, src) ==
    forEachRow("fetchCampaignNegatives", c, src.campaignNegativeRows)

fetchCampaignNegativesSingle(c, src) ==
    forEachRow("fetchCampaignNegativesSingle", c, src.campaignNegativeRows)

\* fetchSharedNegativeLists: the loop over the list keywords, then the loop
\* over the campaign associations
fetchSharedNegativeLists(c, src) ==
    forEachRow("fetchAssociations",
               forEachRow("fetchSharedLists", c, src.sharedListRows),
               src.associationRows)

fetchSharedNegativeListsSingle(c, src) ==
    forEachRow("fetchAssociations",
               forEachRow("fetchSharedListsSingle", c, src.sharedListRows),
               src.associationRows)

fetchAccountNegatives(c, src) ==
    forEachRow("fetchAccountNegatives", c, src.accountNegativeRows)

\* the queries (AdsApp.search and the hasNext of its report) of the fetch
\* functions; src.throwsIn names the one that throws, if any
QUERIES == {"fetchKeywords", "fetchCampaignNegatives", "fetchSharedLists",
            "fetchAssociations", "fetchAccountNegatives"}

QUERIES_SINGLE == {"fetchKeywords", "fetchCampaignNegatives", "fetchSharedLists",
                   "fetchAssociations"}

\* mutant of buildDataCache: only a failure of fetchKeywords gives null; a
\* later fetch that throws is dropped and the cache gathered so far returned
buildDataCacheKeepGathered(src) ==
    IF src.throwsIn = "fetchKeywords" THEN NullCache
    ELSE IF src.throwsIn = "fetchCampaignNegatives" THEN fetchKeywords(newCache, src)
    ELSE IF src.throwsIn \in {"fetchSharedLists", "fetchAssociations"}
         THEN fetchCampaignNegatives(fetchKeywords(newCache, src), src)
    ELSE IF src.throwsIn = "fetchAccountNegatives"
         THEN fetchSharedNegativeLists(
                  fetchCampaignNegatives(fetchKeywords(newCache, src), src), src)
    ELSE fetchAccountNegatives(
             fetchSharedNegativeLists(
                 fetchCampaignNegatives(fetchKeywords(newCache, src), src), src), src)

\* buildDataCache of the MCC variant: the four fetches run inside one try
\* block, whose catch block returns null
buildDataCache(src) ==
    IF src.throwsIn \in QUERIES THEN NullCache
    ELSE fetchAccountNegatives(
             fetchSharedNegativeLists(
                 fetchCampaignNegatives(fetchKeywords(newCache, src), src), src), src)

\* buildDataCache of the single-account variant: three fetches, no account
\* negatives
buildDataCacheSingle(src) ==
    IF src.throwsIn \in QUERIES_SINGLE THEN NullCache
    ELSE fetchSharedNegativeListsSingle(
             fetchCampaignNegativesSingle(fetchKeywordsSingle(newCache, src), src), src)

---------------------------------------------------------------------------
(* The conflict analysis.  A location string is the tuple of the pieces of  *)
(* its template; a conflict row is <<negative display, location, blocked    *)
(* positives joined with ', '>>.                                            *)

RECURSIVE SortedSeq(_)
\* the keys of an object whose keys are small integers, in the order of for...in
SortedSeq(S) == IF S = {} THEN <<>> ELSE <<Min(S)>> \o SortedSeq(S \ {Min(S)})

COMMA_SPACE == <<",", " ">>

\* mutant of blockedPositivesDisplay: a display text already in the list is
\* not pushed again
blockedPositivesDisplayOnce(neg, positives) ==
    LET blocked == SelectSeq(positives, LAMBDA pos : negativeBlocksPositive(neg, pos))
        first == {i \in 1..Len(blocked) :
                     \A j \in 1..(i - 1) : blocked[j].display /= blocked[i].display}
    IN  [n \in 1..Cardinality(first) |->
            blocked[CHOOSE i \in first : Cardinality({j \in first : j <= i}) = n].display]

\* the display texts pushed by the inner loop of checkLevelForConflicts
blockedPositivesDisplay(neg, positives) ==
    LET blocked == SelectSeq(positives, LAMBDA pos : negativeBlocksPositive(neg, pos))
    IN  [i \in 1..Len(blocked) |-> blocked[i].display]

blockedPositivesDisplaySingle(neg, positives) ==
    LET blocked == SelectSeq(positives, LAMBDA pos : negativeBlocksPositiveSingle(neg, pos))
    IN  [i \in 1..Len(blocked) |-> blocked[i].display]

RECURSIVE checkLevelForConflictsAlwaysPush(_, _, _, _)
\* mutant of checkLevelForConflicts: a row is pushed for every negative, also
\* when it blocks nothing (length >= 0)
checkLevelForConflictsAlwaysPush(out, negatives, positives, locationString) ==
    IF negatives = <<>> THEN out
    ELSE LET blocked == blockedPositivesDisplay(Head(negatives), positives)
         IN  checkLevelForConflictsAlwaysPush(
                 Append(out, <<Head(negatives).display, locationString,
                               join(blocked, COMMA_SPACE)>>),
                 Tail(negatives), positives, locationString)

RECURSIVE checkLevelForConflictsRowPerPositive(_, _, _, _)
\* mutant of checkLevelForConflicts: the row is pushed inside the inner loop,
\* once for every blocked positive
checkLevelForConflictsRowPerPositive(out, negatives, positives, locationString) ==
    IF negatives = <<>> THEN out
    ELSE LET blocked == blockedPositivesDisplay(Head(negatives), positives)
             pushed == [i \in 1..Len(blocked) |->
                          <<Head(negatives).display, locationString, blocked[i]>>]
         IN  checkLevelForConflictsRowPerPositive(out \o pushed, Tail(negatives),
                                                  positives, locationString)

RECURSIVE checkLevelForConflicts(_, _, _, _)
\* checkLevelForConflicts of the MCC variant: the rows after the call
checkLevelForConflicts(out, negatives, positives, locationString) ==
    IF negatives = <<>> THEN out
    ELSE LET blocked == blockedPositivesDisplay(Head(negatives), positives)
             out1 == IF Len(blocked) > 0
                     THEN Append(out, <<Head(negatives).display, locationString,
                                        join(blocked, COMMA_SPACE)>>)
                     ELSE out
         IN  checkLevelForConflicts(out1, Tail(negatives), positives, locationString)

RECURSIVE checkLevelForConflictsSingle(_, _, _, _)
\* checkLevelForConflicts of the single-account variant, when no comparison throws
checkLevelForConflictsSingle(out, negatives, positives, locationString) ==
    IF negatives = <<>> THEN out
    ELSE LET blocked == blockedPositivesDisplaySingle(Head(negatives), positives)
             out1 == IF Len(blocked) > 0
                     THEN Append(out, <<Head(negatives).display, locationString,
                                        join(blocked, COMMA_SPACE)>>)
                     ELSE out
         IN  checkLevelForConflictsSingle(out1, Tail(negatives), positives, locationString)

\* single-account variant: a comparison of this call throws a TypeError; the
\* catch block of checkLevelForConflicts reads negative.display and
\* positive.display for its log line and throws again, so the error leaves
\* checkLevelForConflicts
checkLevelThrowsSingle(negatives, positives) ==
    \E i \in 1..Len(negatives), j \in 1..Len(positives) :
        comparisonThrowsSingle(negatives[i], positives[j])

adGroupLocation(adGroup, campaign) ==
    <<"Ad Group: ", adGroup.name, " (Campaign: ", campaign.name, ")">>
campaignLocation(campaign) == <<"Campaign: ", campaign.name>>
sharedListLocation(listName, campaign) ==
    <<"Shared List: ", listName, " (Applied to Campaign: ", campaign.name, ")">>
accountLocation == <<"Account Level">>

RECURSIVE checkSharedLists(_, _, _, _, _)
\* findConflicts, MCC variant: the loop over campaign.sharedListNegatives
checkSharedLists(out, c, campaign, refs, positives) ==
    IF refs = <<>> THEN out
    ELSE LET listInfo == Head(refs)
             out1 == IF listInfo.listId \in DOMAIN c.sharedLists
                     THEN checkLevelForConflicts(out, c.sharedLists[listInfo.listId].negatives,
                              positives,
                              sharedListLocation(
                                  IF listInfo.listName /= <<>> THEN listInfo.listName
                                  ELSE <<"List ID ", listInfo.listId>>, campaign))
                     ELSE out
         IN  checkSharedLists(out1, c, campaign, Tail(refs), positives)

RECURSIVE checkSharedListsSingle(_, _, _, _, _)
checkSharedListsSingle(out, c, campaign, refs, positives) ==
    IF refs = <<>> THEN out
    ELSE LET listInfo == Head(refs)
             out1 == IF listInfo.listId \in DOMAIN c.sharedLists
                     THEN checkLevelForConflictsSingle(out,
                              c.sharedLists[listInfo.listId].negatives,
                              positives, sharedListLocation(listInfo.listName, campaign))
                     ELSE out
         IN  checkSharedListsSingle(out1, c, campaign, Tail(refs), positives)

RECURSIVE concatPositives(_, _)
concatPositives(campaign, adGroupIds) ==
    IF adGroupIds = <<>> THEN <<>>
    ELSE campaign.adGroups[Head(adGroupIds)].positives
         \o concatPositives(campaign, Tail(adGroupIds))

\* mutant of checkAdGroup: an ad group without positives is not skipped and
\* the campaign's negatives are checked against the positives of all the ad
\* groups of the campaign
checkAdGroupCampaignWide(out, c, campaign, adGroup) ==
    LET out1 == checkLevelForConflicts(out, adGroup.negatives, adGroup.positives,
                                       adGroupLocation(adGroup, campaign))
        out2 == checkLevelForConflicts(out1, campaign.negatives,
                    concatPositives(campaign, SortedSeq(DOMAIN campaign.adGroups)),
                    campaignLocation(campaign))
        out3 == checkSharedLists(out2, c, campaign, campaign.sharedListNegatives,
                                 adGroup.positives)
    IN  checkLevelForConflicts(out3, c.accountNegatives, adGroup.positives,
                               accountLocation)

RECURSIVE allListRefs(_, _)
allListRefs(c, ids) ==
    IF ids = {} THEN <<>>
    ELSE LET id == CHOOSE x \in ids : TRUE
         IN  <<[listId |-> id, listName |-> c.sharedLists[id].name]>>
             \o allListRefs(c, ids \ {id})

\* mutant of checkAdGroup: every shared list of the cache is checked, not
\* only those the campaign refers to
checkAdGroupAllLists(out, c, campaign, adGroup) ==
    IF Len(adGroup.positives) = 0 THEN out
    ELSE LET out1 == checkLevelForConflicts(out, adGroup.negatives, adGroup.positives,
                                            adGroupLocation(adGroup, campaign))
             out2 == checkLevelForConflicts(out1, campaign.negatives, adGroup.positives,
                                            campaignLocation(campaign))
             out3 == checkSharedLists(out2, c, campaign,
                                      allListRefs(c, DOMAIN c.sharedLists),
                                      adGroup.positives)
         IN  checkLevelForConflicts(out3, c.accountNegatives, adGroup.positives,
                                    accountLocation)

\* mutant of checkAdGroup: the account-level negatives are not checked
checkAdGroupNoAccountLevel(out, c, campaign, adGroup) ==
    IF Len(adGroup.positives) = 0 THEN out
    ELSE LET out1 == checkLevelForConflicts(out, adGroup.negatives, adGroup.positives,
                                            adGroupLocation(adGroup, campaign))
             out2 == checkLevelForConflicts(out1, campaign.negatives, adGroup.positives,
                                            campaignLocation(campaign))
         IN  checkSharedLists(out2, c, campaign, campaign.sharedListNegatives,
                              adGroup.positives)

\* findConflicts, MCC variant: the body of the ad-group loop
checkAdGroup(out, c, campaign, adGroup) ==
    IF Len(adGroup.positives) = 0 THEN out
    ELSE LET out1 == checkLevelForConflicts(out, adGroup.negatives, adGroup.positives,
                                            adGroupLocation(adGroup, campaign))
             out2 == checkLevelForConflicts(out1, campaign.negatives, adGroup.positives,
                                            campaignLocation(campaign))
             out3 == checkSharedLists(out2, c, campaign, campaign.sharedListNegatives,
                                      adGroup.positives)
         IN  checkLevelForConflicts(out3, c.accountNegatives, adGroup.positives,
                                    accountLocation)

\* a loop body that checks the campaign negatives before those of the ad group
checkAdGroupSingleCampaignFirst(out, c, campaign, adGroup) ==
    IF Len(adGroup.positives) = 0 THEN out
    ELSE LET out1 == checkLevelForConflictsSingle(out, campaign.negatives,
                                                  adGroup.positives,
                                                  campaignLocation(campaign))
             out2 == checkLevelForConflictsSingle(out1, adGroup.negatives,
                                                  adGroup.positives,
                                                  adGroupLocation(adGroup, campaign))
         IN  checkSharedListsSingle(out2, c, campaign, campaign.sharedListNegatives,
                                    adGroup.positives)

\* findConflicts, single-account variant: the body of the ad-group loop
checkAdGroupSingle(out, c, campaign, adGroup) ==
    IF Len(adGroup.positives) = 0 THEN out
    ELSE LET out1 == checkLevelForConflictsSingle(out, adGroup.negatives, adGroup.positives,
                                                  adGroupLocation(adGroup, campaign))
             out2 == checkLevelForConflictsSingle(out1, campaign.negatives,
                                                  adGroup.positives,
                                                  campaignLocation(campaign))
         IN  checkSharedListsSingle(out2, c, campaign, campaign.sharedListNegatives,
                                    adGroup.positives)

RECURSIVE checkAdGroups(_, _, _, _)
checkAdGroups(out, c, campaign, adGroupIds) ==
    IF adGroupIds = <<>> THEN out
    ELSE checkAdGroups(checkAdGroup(out, c, campaign, campaign.adGroups[Head(adGroupIds)]),
                       c, campaign, Tail(adGroupIds))

RECURSIVE checkAdGroupsSingle(_, _, _, _)
checkAdGroupsSingle(out, c, campaign, adGroupIds) ==
    IF adGroupIds = <<>> THEN out
    ELSE checkAdGroupsSingle(
             checkAdGroupSingle(out, c, campaign, campaign.adGroups[Head(adGroupIds)]),
             c, campaign, Tail(adGroupIds))

RECURSIVE checkCampaigns(_, _, _)
checkCampaigns(out, c, campaignIds) ==
    IF campaignIds = <<>> THEN out
    ELSE LET campaign == c.campaigns[Head(campaignIds)]
         IN  checkCampaigns(
                 checkAdGroups(out, c, campaign, SortedSeq(DOMAIN campaign.adGroups)),
                 c, Tail(campaignIds))

RECURSIVE checkCampaignsSingle(_, _, _)
checkCampaignsSingle(out, c, campaignIds) ==
    IF campaignIds = <<>> THEN out
    ELSE LET campaign == c.campaigns[Head(campaignIds)]
         IN  checkCampaignsSingle(
                 checkAdGroupsSingle(out, c, campaign, SortedSeq(DOMAIN campaign.adGroups)),
                 c, Tail(campaignIds))

\* findConflicts of the MCC variant
findConflicts(c) == checkCampaigns(<<>>, c, SortedSeq(DOMAIN c.campaigns))

\* findConflicts of the single-account variant, when no comparison throws
findConflictsSingle(c) == checkCampaignsSingle(<<>>, c, SortedSeq(DOMAIN c.campaigns))

\* findConflicts of the single-account variant ends with a TypeError: some
\* call of checkLevelForConflicts it makes throws
findConflictsThrowsSingle(c) ==
    \E cid \in DOMAIN c.campaigns :
        \E agid \in DOMAIN c.campaigns[cid].adGroups :
            LET campaign == c.campaigns[cid]
                adGroup == campaign.adGroups[agid]
            IN  /\ Len(adGroup.positives) > 0
                /\ \/ checkLevelThrowsSingle(adGroup.negatives, adGroup.positives)
                   \/ checkLevelThrowsSingle(campaign.negatives, adGroup.positives)
                   \/ \E i \in 1..Len(campaign.sharedListNegatives) :
                         /\ campaign.sharedListNegatives[i].listId \in DOMAIN c.sharedLists
                         /\ checkLevelThrowsSingle(
                               c.sharedLists[campaign.sharedListNegatives[i].listId].negatives,
                               adGroup.positives)

---------------------------------------------------------------------------
(* main and the sheet.  A sheet is the sequence of its rows; a cell is a     *)
(* sequence of characters, a location, or empty (<<>>).                      *)

HEADERS == <<"Account Name", "Conflicting Negative Keyword", "Level & Location",
             "Blocked Positive Keywords">>

HEADERS_SINGLE == <<"Conflicting Negative Keyword", "Level & Location",
                    "Blocked Positive Keywords">>

NO_CONFLICT == <<"N","O"," ","C","O","N","F","L","I","C","T">>

NO_CONFLICTS_FOUND ==
    <<"N","o"," ","c","o","n","f","l","i","c","t","s"," ","f","o","u","n","d",".">>

ACCOUNT_ID == <<"A","c","c","o","u","n","t"," ","I","D",":"," ">>

\* account.getName() || `Account ID: ${account.getCustomerId()}`
accountName(account) ==
    IF account.name /= <<>> THEN account.name ELSE ACCOUNT_ID \o account.customerId

\* sheet.getLastRow(): every row written has content in its first column
getLastRow(rows) == Len(rows)

\* sheet.getRange(startRow, 1, numRows, numCols).setValues(data)
setValues(rows, startRow, data) ==
    [i \in 1..Max({Len(rows), startRow + Len(data) - 1}) |->
        IF i >= startRow /\ i < startRow + Len(data) THEN data[i - startRow + 1]
        ELSE IF i <= Len(rows) THEN rows[i]
        ELSE <<>>]

\* sheet.appendRow(row)
appendRow(rows, row) == Append(rows, row)

\* an output that writes every batch from row 2, over what is there
outputConflictsToSheetFromRowTwo(rows, allConflictData) ==
    IF Len(allConflictData) = 0 THEN rows
    ELSE setValues(rows, 2, allConflictData)

\* outputConflictsToSheet of the MCC variant: below the last row
outputConflictsToSheet(rows, allConflictData) ==
    IF Len(allConflictData) = 0 THEN rows
    ELSE setValues(rows, getLastRow(rows) + 1, allConflictData)

\* outputConflictsToSheet of the single-account variant: from row 2
outputConflictsToSheetSingle(rows, conflictData) ==
    IF Len(conflictData) = 0 THEN rows
    ELSE setValues(rows, 2, conflictData)

\* mutant of conflictsToWrite: the 'NO CONFLICT' row is written as well, above
\* the conflict rows
conflictsToWriteWithSentinel(name, accountConflicts) ==
    <<<<name, NO_CONFLICT, <<>>, <<>>>>>> \o
        [i \in 1..Len(accountConflicts) |-> <<name>> \o accountConflicts[i]]

\* accountConflicts.map(conflictRow => [accountName, ...conflictRow])
conflictsToWrite(name, accountConflicts) ==
    [i \in 1..Len(accountConflicts) |-> <<name>> \o accountConflicts[i]]

noConflictRow(name) == <<<<name, NO_CONFLICT, <<>>, <<>>>>>>

\* an exception raised while findConflicts runs that is not one of its own
\* comparisons (the platform fails under it)
analysisThrows(src) == src.throwsIn = "findConflicts"

---------------------------------------------------------------------------
(* Inputs *)

SeqsUpTo(S, n) == UNION {[1..k -> S] : k \in 0..n}

\* characters of the keyword texts handed to the normalizer
TextChars == {"a", "A", " ", "\t", "+", "[", "]", "\""}

UNKNOWN == <<"U","N","K","N","O","W","N">>

\* match types as the data source may deliver them; <<>> is a missing one
SourceMatchTypes ==
    {EXACT, PHRASE, BROAD, BROAD \o MATCH_SUFFIX, <<"e","x","a","c","t">>, UNKNOWN, <<>>}

\* tokens of the texts from which the blocking rule's keywords are made
KeywordTokens == {<<"a">>, <<"b">>, <<"a", "b">>}

\* those texts: up to MaxTokens tokens with single spaces between them
KeywordTexts ==
    {join(ts, <<" ">>) : ts \in SeqsUpTo(KeywordTokens, MaxTokens) \ {<<>>}}

\* the keywords the normalizers produce from those texts
NormalizedKeywords ==
    ({normalizeKeyword(t, m) : t \in KeywordTexts, m \in CanonicalMatchTypes}
     \cup {normalizeKeywordSingle(t, m) : t \in KeywordTexts, m \in CanonicalMatchTypes})
    \ {Null}

EmptyCache == [campaigns |-> <<>>, sharedLists |-> <<>>, accountNegatives |-> <<>>]

NoRenormalized == [fromRaw |-> Null, fromDisplay |-> Null]

\* the (text, match type) pairs of the source records: a broad keyword, an
\* exact one delivered with its brackets, a phrase one, and a whitespace-only
\* text
SourceKeywords ==
    {[text |-> <<"a">>, matchType |-> BROAD],
     [text |-> <<"[", "a", " ", "b", "]">>, matchType |-> EXACT],
     [text |-> <<"b", " ", "a">>, matchType |-> PHRASE],
     [text |-> <<" ">>, matchType |-> EXACT]}

\* the (campaign id, ad group id) pairs of the account
AdGroupPlaces == {<<1, 11>>, <<1, 12>>, <<2, 21>>}

CampaignIds == {1, 2}

CampaignNames == (1 :> <<"C", "1">>) @@ (2 :> <<"C", "2">>)

AdGroupNames ==
    (11 :> <<"G", "1", "1">>) @@ (12 :> <<"G", "1", "2">>) @@ (21 :> <<"G", "2", "1">>)

SharedListIds == {<<"7">>, <<"8">>}

RESOURCE_PREFIX == <<"c","u","s","t","o","m","e","r","s","/","1","/">>

\* resource names of shared sets: two well-formed ones and one that does not
\* end in digits
SharedSetResourceNames ==
    {RESOURCE_PREFIX \o SHARED_SETS \o id : id \in SharedListIds}
    \cup {RESOURCE_PREFIX \o SHARED_SETS \o <<"7", "/">>}

\* rows of the keyword_view query; the last one lacks its campaign
KeywordRows ==
    {[campaignId |-> p[1], campaignName |-> CampaignNames[p[1]],
      adGroupId |-> p[2], adGroupName |-> AdGroupNames[p[2]],
      text |-> k.text, matchType |-> k.matchType, negative |-> n] :
        p \in AdGroupPlaces, k \in SourceKeywords, n \in {"true", "false"}}
    \cup {[campaignId |-> 0, campaignName |-> <<>>, adGroupId |-> 11,
           adGroupName |-> AdGroupNames[11], text |-> <<"a">>, matchType |-> BROAD,
           negative |-> "false"]}

\* rows of the campaign_criterion query; the last one lacks its keyword text
CampaignNegativeRows ==
    {[campaignId |-> cid, text |-> k.text, matchType |-> k.matchType] :
        cid \in CampaignIds, k \in SourceKeywords}
    \cup {[campaignId |-> 1, text |-> <<>>, matchType |-> BROAD]}

\* rows of the shared_criterion query; the last one lacks its match type
SharedListRows ==
    {[listId |-> id, listName |-> <<"L">> \o id, text |-> k.text, matchType |-> k.matchType] :
        id \in SharedListIds, k \in SourceKeywords}
    \cup {[listId |-> <<"7">>, listName |-> <<"L", "7">>, text |-> <<"a">>, matchType |-> <<>>]}

\* rows of the campaign_shared_set query; the last one lacks its resource name
AssociationRows ==
    {[campaignId |-> cid, sharedSet |-> r] : cid \in CampaignIds, r \in SharedSetResourceNames}
    \cup {[campaignId |-> 1, sharedSet |-> <<>>]}

\* rows of the customer_negative_criterion query
AccountNegativeRows ==
    {[text |-> k.text, matchType |-> k.matchType] : k \in SourceKeywords}
    \cup {[text |-> <<>>, matchType |-> BROAD]}

\* a row of any report whose processing throws
ThrowingRow == [throws |-> TRUE]

\* the answers of the data source for one account: the rows of its five
\* reports and the query that throws, if any
Source(kw, cn, sl, as, an, t) ==
    [keywordRows |-> kw, campaignNegativeRows |-> cn, sharedListRows |-> sl,
     associationRows |-> as, accountNegativeRows |-> an, throwsIn |-> t]

NoSource == <<>>

ThrowPoints == {"none", "fetchKeywords", "fetchCampaignNegatives", "fetchSharedLists",
                "fetchAssociations", "fetchAccountNegatives", "findConflicts"}

KeywordRow(p, k, n) ==
    [campaignId |-> p[1], campaignName |-> CampaignNames[p[1]],
     adGroupId |-> p[2], adGroupName |-> AdGroupNames[p[2]],
     text |-> k.text, matchType |-> k.matchType, negative |-> n]

BroadA == [text |-> <<"a">>, matchType |-> BROAD]
PhraseBA == [text |-> <<"b", " ", "a">>, matchType |-> PHRASE]
Blank == [text |-> <<" ">>, matchType |-> EXACT]

\* the rows of one account's pass: two positives in two ad groups of one
\* campaign, an ad-group negative, a whitespace-only text, a row without
\* campaign id and a row that throws; a row whose negative flag is missing
\* (undefined) and that gives other names to ids 1 and 11, and a row whose
\* flag is the string 'true', not a boolean
PassKeywordRows ==
    {KeywordRow(<<1, 11>>, BroadA, "false"), KeywordRow(<<1, 12>>, PhraseBA, "false"),
     KeywordRow(<<1, 11>>, BroadA, "true"), KeywordRow(<<1, 11>>, Blank, "false"),
     [campaignId |-> 1, campaignName |-> <<"X">>, adGroupId |-> 11,
      adGroupName |-> <<"Y">>, text |-> PhraseBA.text, matchType |-> PHRASE,
      negative |-> "undefined"],
     KeywordRow(<<1, 12>>, BroadA, "'true'"),
     [campaignId |-> 0, campaignName |-> <<>>, adGroupId |-> 11,
      adGroupName |-> AdGroupNames[11], text |-> <<"a">>, matchType |-> BROAD,
      negative |-> "false"],
     ThrowingRow}

PassCampaignNegativeRows ==
    {[campaignId |-> 1, text |-> BroadA.text, matchType |-> BROAD],
     [campaignId |-> 1, text |-> Blank.text, matchType |-> EXACT],
     ThrowingRow}

PassSharedListRows ==
    {[listId |-> <<"7">>, listName |-> <<"L", "7">>, text |-> k.text,
      matchType |-> k.matchType] : k \in {BroadA, Blank}}

PassAssociationRows ==
    {[campaignId |-> 1, sharedSet |-> RESOURCE_PREFIX \o SHARED_SETS \o <<"7">>],
     [campaignId |-> 1, sharedSet |-> RESOURCE_PREFIX \o SHARED_SETS \o <<"7", "/">>]}

PassAccountNegativeRows ==
    {[text |-> k.text, matchType |-> k.matchType] : k \in {BroadA, Blank}}

\* how many rows each of the five reports of an account delivers: at most
\* MaxRows in all
RowCounts ==
    {n \in [1..5 -> 0..MaxRows] : n[1] + n[2] + n[3] + n[4] + n[5] <= MaxRows}

\* the sources of one account's pass whose reports deliver n[1], ..., n[5] rows
PassSources(n) ==
    {Source(kw, cn, sl, as, an, t) :
        kw \in [1..n[1] -> PassKeywordRows],
        cn \in [1..n[2] -> PassCampaignNegativeRows],
        sl \in [1..n[3] -> PassSharedListRows],
        as \in [1..n[4] -> PassAssociationRows],
        an \in [1..n[5] -> PassAccountNegativeRows],
        t \in ThrowPoints}

\* the accounts the selector may yield; the last one has no name
AccountPool ==
    {[name |-> <<"A">>, customerId |-> <<"1">>],
     [name |-> <<"B">>, customerId |-> <<"2">>],
     [name |-> <<>>, customerId |-> <<"3">>]}

ThisAccount == [name |-> <<"A">>, customerId |-> <<"1">>]

\* selectors: up to MaxAccounts different accounts in any order
AccountSelectors ==
    {q \in SeqsUpTo(AccountPool, MaxAccounts) :
        \A i, j \in 1..Len(q) : i /= j => q[i] /= q[j]}

\* the sources of the accounts of an MCC run
MccSources ==
    {Source(kw, <<>>, <<>>, <<>>, an, t) :
        kw \in {<<>>, <<KeywordRow(<<1, 11>>, BroadA, "false")>>,
                <<KeywordRow(<<1, 11>>, BroadA, "false"),
                  KeywordRow(<<1, 11>>, BroadA, "true")>>},
        an \in {<<>>, <<[text |-> BroadA.text, matchType |-> BROAD]>>},
        t \in {"none", "fetchAccountNegatives", "findConflicts"}}

\* sources without rows: what matters of them is where the account fails
EmptySources == {Source(<<>>, <<>>, <<>>, <<>>, <<>>, t) : t \in ThrowPoints}

---------------------------------------------------------------------------
(* Specification of the normalizer: one (text, matchType) pair is drawn,    *)
(* normalized by both variants, and the result is normalized again.         *)

InitNorm ==
    /\ NoCreator
    /\ pc = "input"
    /\ text \in SeqsUpTo(TextChars, MaxTextLen)
    /\ matchType \in SourceMatchTypes
    /\ normalized = Null
    /\ normalizedSingle = Null
    /\ renormalized = NoRenormalized
    /\ renormalizedSingle = NoRenormalized
    /\ negative = Null
    /\ positive = Null
    /\ blocks = FALSE
    /\ blocksSingle = FALSE
    /\ variant = "MCC"
    /\ cache = EmptyCache
    /\ rowsLeft = 0
    /\ conflictsOutput = <<>>
    /\ source = NoSource
    /\ accounts = <<>>
    /\ selected = <<>>
    /\ sheet = <<>>

Normalize ==
    /\ pc = "input"
    /\ normalized' = normalizeKeyword(text, matchType)
    /\ normalizedSingle' = normalizeKeywordSingle(text, matchType)
    /\ pc' = "normalized"
    /\ UNCHANGED <<text, matchType, renormalized, renormalizedSingle, negative,
                   positive, blocks, blocksSingle, variant, cache, rowsLeft,
                   conflictsOutput, mainVars, creatorVars>>

Renormalize ==
    /\ pc = "normalized"
    /\ renormalized' =
          IF normalized.null THEN NoRenormalized
          ELSE [fromRaw |-> normalizeKeyword(normalized.raw, normalized.matchType),
                fromDisplay |-> normalizeKeyword(normalized.display, normalized.matchType)]
    /\ renormalizedSingle' =
          IF normalizedSingle.null THEN NoRenormalized
          ELSE [fromRaw |-> normalizeKeywordSingle(normalizedSingle.raw,
                                                   normalizedSingle.matchType),
                fromDisplay |-> normalizeKeywordSingle(normalizedSingle.display,
                                                       normalizedSingle.matchType)]
    /\ pc' = "renormalized"
    /\ UNCHANGED <<text, matchType, normalized, normalizedSingle, negative,
                   positive, blocks, blocksSingle, variant, cache, rowsLeft,
                   conflictsOutput, mainVars, creatorVars>>

NextNorm == Normalize \/ Renormalize

SpecNorm == InitNorm /\ [][NextNorm]_vars

---------------------------------------------------------------------------
(* Specification of the blocking rule: a negative and a positive keyword    *)
(* are drawn from the normalizers' outputs and compared by both variants.   *)

InitBlocks ==
    /\ NoCreator
    /\ pc = "input"
    /\ negative \in NormalizedKeywords
    /\ positive \in NormalizedKeywords
    /\ blocks = FALSE
    /\ blocksSingle = FALSE
    /\ text = <<>>
    /\ matchType = <<>>
    /\ normalized = Null
    /\ normalizedSingle = Null
    /\ renormalized = NoRenormalized
    /\ renormalizedSingle = NoRenormalized
    /\ variant = "MCC"
    /\ cache = EmptyCache
    /\ rowsLeft = 0
    /\ conflictsOutput = <<>>
    /\ source = NoSource
    /\ accounts = <<>>
    /\ selected = <<>>
    /\ sheet = <<>>

Compare ==
    /\ pc = "input"
    /\ blocks' = negativeBlocksPositive(negative, positive)
    /\ blocksSingle' = negativeBlocksPositiveSingle(negative, positive)
    /\ pc' = "compared"
    /\ UNCHANGED <<text, matchType, normalized, normalizedSingle, renormalized,
                   renormalizedSingle, negative, positive, variant, cache,
                   rowsLeft, conflictsOutput, mainVars, creatorVars>>

NextBlocks == Compare

SpecBlocks == InitBlocks /\ [][NextBlocks]_vars

---------------------------------------------------------------------------
(* Specification of one account's pass: buildDataCache runs its fetch       *)
(* loops over the rows the data source delivers, then findConflicts         *)
(* analyses the cache.  The variant is fixed at the start.                  *)

Init ==
    /\ NoCreator
    /\ variant \in {"MCC", "SINGLE"}
    /\ pc = "fetchKeywords"
    /\ cache = EmptyCache
    /\ rowsLeft = MaxRows
    /\ conflictsOutput = <<>>
    /\ source = NoSource
    /\ accounts = <<>>
    /\ selected = <<>>
    /\ sheet = <<>>
    /\ text = <<>>
    /\ matchType = <<>>
    /\ normalized = Null
    /\ normalizedSingle = Null
    /\ renormalized = NoRenormalized
    /\ renormalizedSingle = NoRenormalized
    /\ negative = Null
    /\ positive = Null
    /\ blocks = FALSE
    /\ blocksSingle = FALSE

others == <<text, matchType, normalized, normalizedSingle, renormalized,
            renormalizedSingle, negative, positive, blocks, blocksSingle, mainVars,
            creatorVars>>

\* one turn of the loop of fetchKeywords
FetchKeywordsRow ==
    /\ pc = "fetchKeywords"
    /\ rowsLeft > 0
    /\ \E row \in KeywordRows :
          cache' = IF variant = "MCC" THEN fetchKeywordsRow(cache, row)
                   ELSE fetchKeywordsRowSingle(cache, row)
    /\ rowsLeft' = rowsLeft - 1
    /\ UNCHANGED <<pc, variant, conflictsOutput, others>>

\* report.hasNext() is false: fetchKeywords returns
FetchKeywordsEnd ==
    /\ pc = "fetchKeywords"
    /\ pc' = "fetchCampaignNegatives"
    /\ UNCHANGED <<variant, cache, rowsLeft, conflictsOutput, others>>

\* one turn of the loop of fetchCampaignNegatives
FetchCampaignNegativesRow ==
    /\ pc = "fetchCampaignNegatives"
    /\ rowsLeft > 0
    /\ \E row \in CampaignNegativeRows :
          cache' = IF variant = "MCC" THEN fetchCampaignNegativesRow(cache, row)
                   ELSE fetchCampaignNegativesRowSingle(cache, row)
    /\ rowsLeft' = rowsLeft - 1
    /\ UNCHANGED <<pc, variant, conflictsOutput, others>>

FetchCampaignNegativesEnd ==
    /\ pc = "fetchCampaignNegatives"
    /\ pc' = "fetchSharedLists"
    /\ UNCHANGED <<variant, cache, rowsLeft, conflictsOutput, others>>

\* one turn of the first loop of fetchSharedNegativeLists
FetchSharedListRow ==
    /\ pc = "fetchSharedLists"
    /\ rowsLeft > 0
    /\ \E row \in SharedListRows :
          cache' = IF variant = "MCC" THEN fetchSharedListRow(cache, row)
                   ELSE fetchSharedListRowSingle(cache, row)
    /\ rowsLeft' = rowsLeft - 1
    /\ UNCHANGED <<pc, variant, conflictsOutput, others>>

FetchSharedListEnd ==
    /\ pc = "fetchSharedLists"
    /\ pc' = "fetchAssociations"
    /\ UNCHANGED <<variant, cache, rowsLeft, conflictsOutput, others>>

\* one turn of the second loop of fetchSharedNegativeLists
FetchAssociationRow ==
    /\ pc = "fetchAssociations"
    /\ rowsLeft > 0
    /\ \E row \in AssociationRows : cache' = fetchAssociationRow(cache, row)
    /\ rowsLeft' = rowsLeft - 1
    /\ UNCHANGED <<pc, variant, conflictsOutput, others>>

\* fetchSharedNegativeLists returns; the MCC variant goes on to the account
\* negatives, the single-account variant has the cache complete
FetchAssociationEnd ==
    /\ pc = "fetchAssociations"
    /\ pc' = IF variant = "MCC" THEN "fetchAccountNegatives" ELSE "findConflicts"
    /\ UNCHANGED <<variant, cache, rowsLeft, conflictsOutput, others>>

\* one turn of the loop of fetchAccountNegatives
FetchAccountNegativesRow ==
    /\ pc = "fetchAccountNegatives"
    /\ rowsLeft > 0
    /\ \E row \in AccountNegativeRows : cache' = fetchAccountNegativesRow(cache, row)
    /\ rowsLeft' = rowsLeft - 1
    /\ UNCHANGED <<pc, variant, conflictsOutput, others>>

FetchAccountNegativesEnd ==
    /\ pc = "fetchAccountNegatives"
    /\ pc' = "findConflicts"
    /\ UNCHANGED <<variant, cache, rowsLeft, conflictsOutput, others>>

\* an analysis that empties the positives of the ad groups it has checked
FindConflictsConsuming ==
    /\ pc = "findConflicts"
    /\ variant = "MCC"
    /\ conflictsOutput' = findConflicts(cache)
    /\ cache' = [cache EXCEPT !.campaigns =
                    [cid \in DOMAIN @ |->
                        [@[cid] EXCEPT !.adGroups =
                            [agid \in DOMAIN @ |-> [@[agid] EXCEPT !.positives = <<>>]]]]]
    /\ pc' = "analyzed"
    /\ UNCHANGED <<variant, rowsLeft, others>>

\* main calls findConflicts(dataCache), MCC variant
FindConflicts ==
    /\ pc = "findConflicts"
    /\ variant = "MCC"
    /\ conflictsOutput' = findConflicts(cache)
    /\ pc' = "analyzed"
    /\ UNCHANGED <<variant, cache, rowsLeft, others>>

\* main calls findConflicts(dataCache), single-account variant: a list is returned
FindConflictsSingle ==
    /\ pc = "findConflicts"
    /\ variant = "SINGLE"
    /\ ~findConflictsThrowsSingle(cache)
    /\ conflictsOutput' = findConflictsSingle(cache)
    /\ pc' = "analyzed"
    /\ UNCHANGED <<variant, cache, rowsLeft, others>>

\* single-account variant: the TypeError leaves findConflicts and main, which
\* has no handler; the run ends
FindConflictsSingleThrows ==
    /\ pc = "findConflicts"
    /\ variant = "SINGLE"
    /\ findConflictsThrowsSingle(cache)
    /\ pc' = "crashed"
    /\ UNCHANGED <<variant, cache, rowsLeft, conflictsOutput, others>>

Next ==
    \/ FetchKeywordsRow
    \/ FetchKeywordsEnd
    \/ FetchCampaignNegativesRow
    \/ FetchCampaignNegativesEnd
    \/ FetchSharedListRow
    \/ FetchSharedListEnd
    \/ FetchAssociationRow
    \/ FetchAssociationEnd
    \/ FetchAccountNegativesRow
    \/ FetchAccountNegativesEnd
    \/ FindConflicts
    \/ FindConflictsSingle
    \/ FindConflictsSingleThrows

Spec == Init /\ [][Next]_vars

---------------------------------------------------------------------------
(* Specification of main.  The sources of the accounts are fixed at the     *)
(* start; the MCC variant takes one account per turn of its loop, the       *)
(* single-account variant runs main once on the account it is in.           *)

mainOthers == <<text, matchType, normalized, normalizedSingle, renormalized,
                renormalizedSingle, negative, positive, blocks, blocksSingle,
                rowsLeft, creatorVars>>

\* the state main starts in, but for the accounts and their sources
InitMain ==
    /\ NoCreator
    /\ pc = "start"
    /\ selected = <<>>
    /\ sheet = <<>>
    /\ cache = EmptyCache
    /\ conflictsOutput = <<>>
    /\ rowsLeft = 0
    /\ text = <<>>
    /\ matchType = <<>>
    /\ normalized = Null
    /\ normalizedSingle = Null
    /\ renormalized = NoRenormalized
    /\ renormalizedSingle = NoRenormalized
    /\ negative = Null
    /\ positive = Null
    /\ blocks = FALSE
    /\ blocksSingle = FALSE

\* main of the MCC variant up to the account loop: the tab is cleared and
\* the header row appended
MainStart ==
    /\ pc = "start"
    /\ variant = "MCC"
    /\ sheet' = appendRow(<<>>, HEADERS)
    /\ pc' = "accounts"
    /\ UNCHANGED <<variant, source, accounts, selected, cache, conflictsOutput,
                   mainOthers>>

\* mutant of rowsOfAccount: the catch block and the null branch push an error
\* row for the account
rowsOfAccountErrorRow(name, dataCache, failed, accountConflicts) ==
    IF isNull(dataCache) \/ failed
    THEN <<<<name, <<"Error Processing Account">>, <<>>, <<>>>>>>
    ELSE IF Len(accountConflicts) > 0 THEN conflictsToWrite(name, accountConflicts)
    ELSE noConflictRow(name)

\* the rows main writes for an account: none when the cache is null
\* (continue) or an exception reaches the catch block of the loop, else the
\* conflict rows or the 'NO CONFLICT' row
rowsOfAccount(name, dataCache, failed, accountConflicts) ==
    IF isNull(dataCache) \/ failed THEN <<>>
    ELSE IF Len(accountConflicts) > 0 THEN conflictsToWrite(name, accountConflicts)
    ELSE noConflictRow(name)

\* mutant of afterAccount: the body of the loop has no try, an exception
\* leaves main
afterAccountNoCatch(dataCache, failed) ==
    IF ~isNull(dataCache) /\ failed THEN "crashed" ELSE "accounts"

\* where main is after the body of the account loop: continue on a null
\* cache, the catch block and the end of the try block all lead to the test
\* of the loop
afterAccount(dataCache, failed) == "accounts"

\* one turn of the account loop of main: the account is selected, its cache
\* built and analysed and its rows written
ProcessAccount ==
    /\ pc = "accounts"
    /\ accounts /= <<>>
    /\ accounts' = Tail(accounts)
    /\ selected' = Append(selected, accountName(Head(accounts)))
    /\ cache' = buildDataCache(source[Head(accounts).customerId])
    /\ conflictsOutput' =
          IF isNull(cache') \/ analysisThrows(source[Head(accounts).customerId])
          THEN <<>>
          ELSE findConflicts(cache')
    /\ sheet' = outputConflictsToSheet(sheet,
                    rowsOfAccount(accountName(Head(accounts)), cache',
                                  analysisThrows(source[Head(accounts).customerId]),
                                  conflictsOutput'))
    /\ pc' = afterAccount(cache', analysisThrows(source[Head(accounts).customerId]))
    /\ UNCHANGED <<variant, source, mainOthers>>

\* accountSelector.hasNext() is false: main logs and returns
MainEnd ==
    /\ pc = "accounts"
    /\ accounts = <<>>
    /\ pc' = "done"
    /\ UNCHANGED <<variant, source, accounts, selected, sheet, cache, conflictsOutput,
                   mainOthers>>

\* main of the single-account variant: how it ends
endOfMainSingle(dataCache, failed) ==
    IF isNull(dataCache) THEN "done"
    ELSE IF failed \/ findConflictsThrowsSingle(dataCache) THEN "crashed"
    ELSE "done"

\* main of the single-account variant: the sheet it leaves
sheetOfMainSingle(header, dataCache, end, conflicts) ==
    IF isNull(dataCache) \/ end = "crashed" THEN header
    ELSE IF Len(conflicts) > 0 THEN outputConflictsToSheetSingle(header, conflicts)
    ELSE appendRow(header, <<NO_CONFLICTS_FOUND, <<>>, <<>>>>)

\* main of the single-account variant
MainSingle ==
    /\ pc = "start"
    /\ variant = "SINGLE"
    /\ cache' = buildDataCacheSingle(source[Head(accounts).customerId])
    /\ pc' = endOfMainSingle(cache', analysisThrows(source[Head(accounts).customerId]))
    /\ conflictsOutput' =
          IF isNull(cache') \/ pc' = "crashed" THEN <<>> ELSE findConflictsSingle(cache')
    /\ sheet' = sheetOfMainSingle(appendRow(<<>>, HEADERS_SINGLE), cache', pc',
                                  conflictsOutput')
    /\ UNCHANGED <<variant, source, accounts, selected, mainOthers>>

NextMain == MainStart \/ ProcessAccount \/ MainEnd \/ MainSingle

\* one account's pass, either variant: the account and what the data source
\* answers for it
InitPass ==
    /\ InitMain
    /\ variant \in {"MCC", "SINGLE"}
    /\ accounts = <<ThisAccount>>
    /\ \E n \in RowCounts : source \in [{ThisAccount.customerId} -> PassSources(n)]

SpecPass == InitPass /\ [][NextMain]_vars

\* a run of the MCC variant: the accounts of the selector and their sources
InitMcc ==
    /\ InitMain
    /\ variant = "MCC"
    /\ accounts \in AccountSelectors
    /\ source \in [{accounts[i].customerId : i \in 1..Len(accounts)} -> MccSources]

NextMcc == MainStart \/ ProcessAccount \/ MainEnd

SpecMcc == InitMcc /\ [][NextMcc]_vars

\* a run of the MCC variant over accounts without rows, each failing at some
\* point or not at all
InitMccFair ==
    /\ InitMain
    /\ variant = "MCC"
    /\ accounts \in AccountSelectors
    /\ source \in [{accounts[i].customerId : i \in 1..Len(accounts)} -> EmptySources]

\* the loop of main has nothing to wait for: a run that can take a step
\* takes it
SpecMccFair == InitMccFair /\ [][NextMcc]_vars /\ WF_vars(NextMcc)

----------------------------------------------------------------------------
(* Specification of the association loop of fetchSharedNegativeLists.  The  *)
(* keyword, campaign-negative and shared-list loops have run; the report of *)
(* the campaign_shared_set query is read record by record.                  *)

MaxAssociations == 3

\* the cache when the association loop starts
listsFetched(v, src) ==
    IF v = "MCC"
    THEN forEachRow("fetchSharedLists",
                    fetchCampaignNegatives(fetchKeywords(newCache, src), src),
                    src.sharedListRows)
    ELSE forEachRow("fetchSharedListsSingle",
                    fetchCampaignNegativesSingle(fetchKeywordsSingle(newCache, src), src),
                    src.sharedListRows)

\* keyword rows that bring no campaign, one campaign, or two
AssocKeywordRows ==
    {<<>>,
     <<KeywordRow(<<1, 11>>, BroadA, "false")>>,
     <<KeywordRow(<<1, 11>>, BroadA, "false"), KeywordRow(<<2, 21>>, BroadA, "false")>>}

SharedListRow(id) ==
    [listId |-> id, listName |-> <<"L">> \o id, text |-> BroadA.text, matchType |-> BROAD]

\* shared-list rows that bring no list, one list, or two
AssocSharedListRows ==
    {<<>>, <<SharedListRow(<<"7">>)>>, <<SharedListRow(<<"7">>), SharedListRow(<<"8">>)>>}

\* the sources whose campaign_shared_set report delivers n records
AssocSources(n) ==
    {Source(kw, <<>>, sl, as, <<>>, "none") :
        kw \in AssocKeywordRows, sl \in AssocSharedListRows,
        as \in [1..n -> AssociationRows \cup {ThrowingRow}]}

InitAssoc ==
    /\ NoCreator
    /\ variant \in {"MCC", "SINGLE"}
    /\ pc = "fetchAssociations"
    /\ \E n \in 0..MaxAssociations :
          source \in [{ThisAccount.customerId} -> AssocSources(n)]
    /\ rowsLeft = Len(source[ThisAccount.customerId].associationRows)
    /\ cache = listsFetched(variant, source[ThisAccount.customerId])
    /\ conflictsOutput = <<>>
    /\ accounts = <<>>
    /\ selected = <<>>
    /\ sheet = <<>>
    /\ text = <<>>
    /\ matchType = <<>>
    /\ normalized = Null
    /\ normalizedSingle = Null
    /\ renormalized = NoRenormalized
    /\ renormalizedSingle = NoRenormalized
    /\ negative = Null
    /\ positive = Null
    /\ blocks = FALSE
    /\ blocksSingle = FALSE

\* the record campaignListReport.next() returns
nextAssociation ==
    LET rows == source[ThisAccount.customerId].associationRows
    IN  rows[Len(rows) - rowsLeft + 1]

\* one turn of the while loop over campaignListReport
NextAssociation ==
    /\ pc = "fetchAssociations"
    /\ rowsLeft > 0
    /\ cache' = forEachRow("fetchAssociations", cache, <<nextAssociation>>)
    /\ rowsLeft' = rowsLeft - 1
    /\ UNCHANGED <<pc, variant, conflictsOutput, others>>

\* campaignListReport.hasNext() is false: fetchSharedNegativeLists returns
AssociationsEnd ==
    /\ pc = "fetchAssociations"
    /\ rowsLeft = 0
    /\ pc' = IF variant = "MCC" THEN "fetchAccountNegatives" ELSE "findConflicts"
    /\ UNCHANGED <<variant, cache, rowsLeft, conflictsOutput, others>>

NextAssoc ==
    \/ NextAssociation
    \/ AssociationsEnd

SpecAssoc == InitAssoc /\ [][NextAssoc]_vars

----------------------------------------------------------------------------
(* Specification of the loops of one account's pass in the MCC variant:     *)
(* each report is read record by record with hasNext() and next(), then     *)
(* the index is analysed and the rows are written.                          *)

LOOPS == <<"fetchKeywords", "fetchCampaignNegatives", "fetchSharedLists",
           "fetchAssociations", "fetchAccountNegatives">>

\* the records the report of a loop delivers
reportOf(src, loop) ==
    CASE loop = "fetchKeywords" -> src.keywordRows
      [] loop = "fetchCampaignNegatives" -> src.campaignNegativeRows
      [] loop = "fetchSharedLists" -> src.sharedListRows
      [] loop = "fetchAssociations" -> src.associationRows
      [] loop = "fetchAccountNegatives" -> src.accountNegativeRows

\* what buildDataCache and main run after a loop
afterLoop(loop) ==
    CASE loop = "fetchKeywords" -> "fetchCampaignNegatives"
      [] loop = "fetchCampaignNegatives" -> "fetchSharedLists"
      [] loop = "fetchSharedLists" -> "fetchAssociations"
      [] loop = "fetchAssociations" -> "fetchAccountNegatives"
      [] loop = "fetchAccountNegatives" -> "findConflicts"

\* the reports of the account of the pass: positives, negatives, a record
\* that throws, at most MaxRows records in all
LoopSources(n) ==
    {Source(kw, cn, sl, as, an, t) :
        kw \in [1..n[1] -> {KeywordRow(<<1, 11>>, BroadA, "false"),
                            KeywordRow(<<1, 11>>, BroadA, "true"), ThrowingRow}],
        cn \in [1..n[2] -> {[campaignId |-> 1, text |-> BroadA.text, matchType |-> BROAD]}],
        sl \in [1..n[3] -> {SharedListRow(<<"7">>)}],
        as \in [1..n[4] -> {[campaignId |-> 1,
                             sharedSet |-> RESOURCE_PREFIX \o SHARED_SETS \o <<"7">>],
                            ThrowingRow}],
        an \in [1..n[5] -> {[text |-> BroadA.text, matchType |-> BROAD], ThrowingRow}],
        t \in ThrowPoints}

InitLoops ==
    /\ NoCreator
    /\ variant = "MCC"
    /\ pc = "fetchKeywords"
    /\ \E n \in RowCounts : source \in [{ThisAccount.customerId} -> LoopSources(n)]
    /\ rowsLeft = Len(source[ThisAccount.customerId].keywordRows)
    /\ cache = newCache
    /\ conflictsOutput = <<>>
    /\ accounts = <<>>
    /\ selected = <<accountName(ThisAccount)>>
    /\ sheet = appendRow(<<>>, HEADERS)
    /\ text = <<>>
    /\ matchType = <<>>
    /\ normalized = Null
    /\ normalizedSingle = Null
    /\ renormalized = NoRenormalized
    /\ renormalizedSingle = NoRenormalized
    /\ negative = Null
    /\ positive = Null
    /\ blocks = FALSE
    /\ blocksSingle = FALSE

\* the record report.next() returns in the loop main is in
nextRecord ==
    LET rows == reportOf(source[ThisAccount.customerId], pc)
    IN  rows[Len(rows) - rowsLeft + 1]

\* the control of one turn of a while (report.hasNext()) loop: hasNext() is
\* true and next() takes a record
takeRecord ==
    /\ pc \in Range(LOOPS)
    /\ source[ThisAccount.customerId].throwsIn /= pc
    /\ rowsLeft > 0
    /\ rowsLeft' = rowsLeft - 1
    /\ pc' = pc

\* a loop that is also left at a record that throws, with the records
\* after it unread
leaveLoopAtThrowingRecord ==
    /\ pc \in Range(LOOPS)
    /\ source[ThisAccount.customerId].throwsIn /= pc
    /\ IF rowsLeft = 0 THEN TRUE ELSE rowThrows(nextRecord)
    /\ pc' = afterLoop(pc)
    /\ rowsLeft' = IF pc' \in Range(LOOPS)
                   THEN Len(reportOf(source[ThisAccount.customerId], pc'))
                   ELSE 0

\* the control at the end of a loop: hasNext() is false, the fetch function
\* returns and the next one searches its report
leaveLoop ==
    /\ pc \in Range(LOOPS)
    /\ source[ThisAccount.customerId].throwsIn /= pc
    /\ rowsLeft = 0
    /\ pc' = afterLoop(pc)
    /\ rowsLeft' = IF pc' \in Range(LOOPS)
                   THEN Len(reportOf(source[ThisAccount.customerId], pc'))
                   ELSE 0

\* the control when the query of a fetch function throws: the catch block
\* of buildDataCache returns null and main skips the account
leaveOnThrow ==
    /\ pc \in Range(LOOPS)
    /\ source[ThisAccount.customerId].throwsIn = pc
    /\ pc' = "skipped"
    /\ rowsLeft' = rowsLeft

\* the control of the analysis: findConflicts returns and the rows are
\* written, or an exception goes to the catch block of the account loop
leaveAnalysis ==
    /\ pc = "findConflicts"
    /\ pc' = IF analysisThrows(source[ThisAccount.customerId]) THEN "skipped"
             ELSE "written"
    /\ rowsLeft' = rowsLeft

\* one turn of a fetch loop: the body handles the record taken, or throws
\* and the catch block of the loop logs it
ReportNext ==
    /\ takeRecord
    /\ cache' = forEachRow(pc, cache, <<nextRecord>>)
    /\ UNCHANGED <<variant, conflictsOutput, others>>

ReportEnd ==
    /\ leaveLoop
    /\ UNCHANGED <<variant, cache, conflictsOutput, others>>

QueryThrows ==
    /\ leaveOnThrow
    /\ cache' = NullCache
    /\ UNCHANGED <<variant, conflictsOutput, others>>

\* main analyses the index and writes the rows of the account
AnalyseAndWrite ==
    /\ leaveAnalysis
    /\ conflictsOutput' =
          IF analysisThrows(source[ThisAccount.customerId]) THEN <<>>
          ELSE findConflicts(cache)
    /\ sheet' = outputConflictsToSheet(sheet,
                    rowsOfAccount(accountName(ThisAccount), cache,
                                  analysisThrows(source[ThisAccount.customerId]),
                                  conflictsOutput'))
    /\ UNCHANGED <<variant, cache, source, accounts, selected, text, matchType,
                   normalized, normalizedSingle, renormalized, renormalizedSingle,
                   negative, positive, blocks, blocksSingle, creatorVars>>

NextLoops ==
    \/ ReportNext
    \/ ReportEnd
    \/ QueryThrows
    \/ AnalyseAndWrite

\* the control of the pass: where it is and how many records of the report
\* it is reading are left
control == <<pc, rowsLeft>>

\* the steps of the control
nextControl ==
    \/ takeRecord
    \/ leaveLoop
    \/ leaveOnThrow
    \/ leaveAnalysis

\* the script runs alone and waits for nothing: while the control can move
\* on, it does
SpecLoops == InitLoops /\ [][NextLoops]_vars /\ WF_control(nextControl)

---------------------------------------------------------------------------
(* Whitespace-delimited tokens, read off the text directly: a token is a    *)
(* maximal run of non-whitespace characters.                                *)

TokenStarts(s) ==
    {i \in 1..Len(s) : s[i] \notin Whitespace /\ (i = 1 \/ s[i - 1] \in Whitespace)}

TokenFrom(s, i) ==
    SubSeq(s, i, Max({j \in i..Len(s) : \A k \in i..j : s[k] \notin Whitespace}))

TokenSet(s) == {TokenFrom(s, i) : i \in TokenStarts(s)}

TokenSeq(s) ==
    [k \in 1..Cardinality(TokenStarts(s)) |->
        TokenFrom(s, CHOOSE i \in TokenStarts(s) :
                        Cardinality({j \in TokenStarts(s) : j <= i}) = k)]

\* the texts obtained by permuting the tokens of s
TokenPermutations(s) ==
    LET toks == TokenSeq(s)
    IN  {join([k \in 1..Len(toks) |-> toks[f[k]]], <<" ">>) :
            f \in Permutations(1..Len(toks))}

\* needle occurs in haystack as a contiguous run, in the same order
ContiguousRun(needle, haystack) ==
    \E i \in 0..(Len(haystack) - Len(needle)) :
        SubSeq(haystack, i + 1, i + Len(needle)) = needle

WithMatchType(k, m) == Keyword(displayOf(k.raw, m), k.raw, m)
WithRaw(k, r) == Keyword(displayOf(r, k.matchType), r, k.matchType)

---------------------------------------------------------------------------
(* Claims about the blocking rule (SpecBlocks) *)

\* C1: an EXACT negative blocks a positive exactly when the two raw texts are
\* equal character for character, in both variants, and the positive's match
\* type has no influence on the result.
C1_ExactNegativeBlocksEqualText ==
    (pc = "compared" /\ negative.matchType = EXACT) =>
        /\ blocks <=> (positive.raw = negative.raw)
        /\ blocksSingle <=> (positive.raw = negative.raw)
        /\ \A m \in CanonicalMatchTypes :
              /\ negativeBlocksPositive(negative, WithMatchType(positive, m)) = blocks
              /\ negativeBlocksPositiveSingle(negative, WithMatchType(positive, m))
                    = blocksSingle

\* C1 witness: an EXACT negative has been compared with a BROAD positive of
\* the same text and blocks it.
C1_Witness ==
    /\ pc = "compared"
    /\ negative.matchType = EXACT
    /\ positive.matchType = BROAD
    /\ Len(TokenSeq(positive.raw)) >= 2
    /\ blocks
    /\ blocksSingle

\* C2: a BROAD negative blocks a positive exactly when every whitespace-
\* delimited token of the negative is a token of the positive, whatever the
\* positive's match type; permuting the tokens of either text leaves the
\* result unchanged.
C2_BroadNegativeBlocksTokenSuperset ==
    (pc = "compared" /\ negative.matchType = BROAD) =>
        /\ blocks <=> (TokenSet(negative.raw) \subseteq TokenSet(positive.raw))
        /\ blocksSingle <=> (TokenSet(negative.raw) \subseteq TokenSet(positive.raw))
        /\ \A n \in TokenPermutations(negative.raw) :
              /\ negativeBlocksPositive(WithRaw(negative, n), positive) = blocks
              /\ negativeBlocksPositiveSingle(WithRaw(negative, n), positive) = blocksSingle
        /\ \A p \in TokenPermutations(positive.raw) :
              /\ negativeBlocksPositive(negative, WithRaw(positive, p)) = blocks
              /\ negativeBlocksPositiveSingle(negative, WithRaw(positive, p)) = blocksSingle

\* C2 witness: BROAD 'a b' has been compared with EXACT [b ab a], whose
\* tokens hold those of the negative in another order, and blocks it.
C2_Witness ==
    /\ pc = "compared"
    /\ negative.matchType = BROAD
    /\ negative.raw = <<"a", " ", "b">>
    /\ positive.matchType = EXACT
    /\ positive.raw = <<"b", " ", "a", "b", " ", "a">>
    /\ blocks
    /\ blocksSingle

\* C3: a PHRASE negative blocks an EXACT positive exactly when the raw texts
\* are equal, and blocks a PHRASE or BROAD positive exactly when its tokens
\* occur as a contiguous run, in order, in the positive's token sequence.
C3_PhraseNegativeBlocksContiguousRun ==
    (pc = "compared" /\ negative.matchType = PHRASE) =>
        IF positive.matchType = EXACT
        THEN /\ blocks <=> (positive.raw = negative.raw)
             /\ blocksSingle <=> (positive.raw = negative.raw)
        ELSE /\ blocks <=> ContiguousRun(TokenSeq(negative.raw), TokenSeq(positive.raw))
             /\ blocksSingle <=>
                   ContiguousRun(TokenSeq(negative.raw), TokenSeq(positive.raw))

\* C3 witness: PHRASE "a b" has been compared with BROAD 'b a b', which holds
\* it as a run that is not the whole text, and blocks it.
C3_Witness ==
    /\ pc = "compared"
    /\ negative.matchType = PHRASE
    /\ negative.raw = <<"a", " ", "b">>
    /\ positive.matchType = BROAD
    /\ positive.raw = <<"b", " ", "a", " ", "b">>
    /\ blocks
    /\ blocksSingle

\* the MCC rule and the single-account rule for the negative of the state
\* with match type m
BlocksAs(m) == negativeBlocksPositive(WithMatchType(negative, m), positive)

BlocksAsSingle(m) == negativeBlocksPositiveSingle(WithMatchType(negative, m), positive)

\* C27: the strength of the match types is monotone: if an EXACT negative
\* with text n blocks a positive, so does a PHRASE negative with text n, and
\* if the PHRASE negative blocks it, so does a BROAD negative with text n; a
\* negative of any match type blocks every positive whose raw text equals its
\* own (both variants).
C27_MatchTypeStrengthIsMonotone ==
    (pc = "compared") =>
        /\ BlocksAs(EXACT) => BlocksAs(PHRASE)
        /\ BlocksAs(PHRASE) => BlocksAs(BROAD)
        /\ BlocksAsSingle(EXACT) => BlocksAsSingle(PHRASE)
        /\ BlocksAsSingle(PHRASE) => BlocksAsSingle(BROAD)
        /\ (positive.raw = negative.raw) =>
              /\ blocks
              /\ blocksSingle
              /\ \A m \in CanonicalMatchTypes : BlocksAs(m) /\ BlocksAsSingle(m)

\* C27 witness: a PHRASE negative has been compared with a positive that
\* holds its text as a run among other tokens: EXACT does not block the
\* positive, PHRASE and BROAD do
C27_Witness ==
    /\ pc = "compared"
    /\ negative.matchType = PHRASE
    /\ negative.raw = <<"a", " ", "b">>
    /\ positive.raw = <<"a", " ", "b", " ", "a", "b">>
    /\ ~BlocksAs(EXACT)
    /\ blocks
    /\ BlocksAs(BROAD)
    /\ BlocksAsSingle(BROAD)

---------------------------------------------------------------------------
(* Claims about the normalizer (SpecNorm) *)

CleanRaw(r) ==
    /\ r /= <<>>
    /\ \A i \in 1..Len(r) : r[i] \notin Range(UpperCaseLetters)
    /\ r[1] \notin Whitespace
    /\ r[Len(r)] \notin Whitespace
    /\ \A i \in 1..(Len(r) - 1) : ~(r[i] \in Whitespace /\ r[i + 1] \in Whitespace)

\* C9: whenever normalizeKeyword returns a keyword, its raw text is
\* non-empty, has no uppercase letter, no leading or trailing whitespace and
\* no two consecutive whitespace characters (both variants).
C9_RawTextIsClean ==
    (pc /= "input") =>
        /\ ~normalized.null => CleanRaw(normalized.raw)
        /\ ~normalizedSingle.null => CleanRaw(normalizedSingle.raw)

\* C9 witness: a text with leading whitespace, an uppercase letter and a run
\* of two whitespace characters has been normalized to a keyword.
C9_Witness ==
    /\ pc = "normalized"
    /\ text = <<" ", "A", "\t", " ">> \/ text = <<"A", " ", "\t", "a">>
    /\ ~normalized.null
    /\ ~normalizedSingle.null

\* C10: normalizeKeyword is idempotent: normalizing a keyword's raw text, or
\* its display text, with its canonical match type gives the same raw text.
C10_NormalizeIsIdempotent ==
    (pc = "renormalized") =>
        /\ ~normalized.null =>
              /\ renormalized.fromRaw.raw = normalized.raw
              /\ renormalized.fromDisplay.raw = normalized.raw
        /\ ~normalizedSingle.null =>
              /\ renormalizedSingle.fromRaw.raw = normalizedSingle.raw
              /\ renormalizedSingle.fromDisplay.raw = normalizedSingle.raw

\* a token without one leading '+'
WithoutLeadingPlus(token) == IF token[1] = "+" THEN Tail(token) ELSE token

\* the raw text of a text without wrappers, as the rule for the broad-match
\* modifier has it: the whitespace-delimited tokens, each without one leading
\* '+', joined by single spaces and lowercased
ModifierFreeRaw(t) ==
    LET tokens == [k \in 1..Len(TokenSeq(t)) |-> WithoutLeadingPlus(TokenSeq(t)[k])]
    IN  toLowerCase(join(SelectSeq(tokens, LAMBDA token : token /= <<>>), <<" ">>))

RawOf(keyword) == IF keyword.null THEN <<>> ELSE keyword.raw

\* C24: in both variants normalizeKeyword removes one leading '+' from each
\* whitespace-delimited token (spaces or tabs between the tokens) and nothing
\* else from inside a token; a '+' that is not at the start of a token, as in
\* 'a+b', is kept.  Stated for BROAD keywords, which carry no wrappers.
C24_OneLeadingPlusPerToken ==
    (pc /= "input" /\ matchType = BROAD) =>
        /\ RawOf(normalized) = ModifierFreeRaw(text)
        /\ RawOf(normalizedSingle) = ModifierFreeRaw(text)

\* a match type that is present but is none of EXACT, PHRASE, BROAD once
\* upper-cased and with '_MATCH' removed
Uncanonical(mt) ==
    /\ mt /= <<>>
    /\ replaceFirst(toUpperCase(mt), MATCH_SUFFIX, <<>>) \notin CanonicalMatchTypes

HasLetter(t) ==
    \E i \in 1..Len(t) : t[i] \in Range(UpperCaseLetters) \cup Range(LowerCaseLetters)

\* C11 as stated: normalizeKeyword returns null when the text is empty or
\* whitespace-only, when the match type is missing, and when the match type
\* does not canonicalize to EXACT, PHRASE or BROAD; a returned keyword has
\* one of the three match types (both variants).
C11_UnparseableMatchTypeIsInvalid ==
    (pc /= "input") =>
        /\ (trim(text) = <<>> \/ matchType = <<>> \/ Uncanonical(matchType)) =>
              (normalized.null /\ normalizedSingle.null)
        /\ ~normalized.null => normalized.matchType \in CanonicalMatchTypes
        /\ ~normalizedSingle.null => normalizedSingle.matchType \in CanonicalMatchTypes

\* C11 amended: normalizeKeyword returns null when the text is empty or
\* whitespace-only and when the match type is missing; it returns null for
\* no text that holds a letter and comes with a match type; a match type that
\* does not canonicalize is taken as BROAD; every returned keyword has
\* non-empty raw text and one of the three match types (both variants).
C11_UnparseableMatchTypeIsBroad ==
    (pc /= "input") =>
        /\ (trim(text) = <<>> \/ matchType = <<>>) =>
              (normalized.null /\ normalizedSingle.null)
        /\ (HasLetter(text) /\ matchType /= <<>>) =>
              (~normalized.null /\ ~normalizedSingle.null)
        /\ ~normalized.null =>
              /\ normalized.raw /= <<>>
              /\ normalized.matchType \in CanonicalMatchTypes
              /\ Uncanonical(matchType) => normalized.matchType = BROAD
        /\ ~normalizedSingle.null =>
              /\ normalizedSingle.raw /= <<>>
              /\ normalizedSingle.matchType \in CanonicalMatchTypes
              /\ Uncanonical(matchType) => normalizedSingle.matchType = BROAD

\* C11 witness: a text with an unrecognized match type has been normalized
\* to a BROAD keyword by both variants.
C11_Witness ==
    /\ pc = "normalized"
    /\ text = <<"a">>
    /\ matchType = UNKNOWN
    /\ normalized = Keyword(<<"a">>, <<"a">>, BROAD)
    /\ normalizedSingle = Keyword(<<"a">>, <<"a">>, BROAD)

---------------------------------------------------------------------------
(* Claims about findConflicts and the cache (Spec).  The evaluations of a   *)
(* cache are read off it directly: one for every ad group that has          *)
(* positives, every level visible from it and every entry of that level's   *)
(* list of negatives.                                                       *)

Levels(c, cid) ==
    {<<"adGroup", 0>>, <<"campaign", 0>>, <<"account", 0>>}
    \cup {<<"shared", i>> : i \in 1..Len(c.campaigns[cid].sharedListNegatives)}

LevelNegatives(c, cid, agid, lv) ==
    CASE lv[1] = "adGroup" -> c.campaigns[cid].adGroups[agid].negatives
      [] lv[1] = "campaign" -> c.campaigns[cid].negatives
      [] lv[1] = "account" -> c.accountNegatives
      [] lv[1] = "shared" ->
            LET id == c.campaigns[cid].sharedListNegatives[lv[2]].listId
            IN  IF id \in DOMAIN c.sharedLists THEN c.sharedLists[id].negatives ELSE <<>>

LevelLocation(c, cid, agid, lv) ==
    CASE lv[1] = "adGroup" ->
            <<"Ad Group: ", c.campaigns[cid].adGroups[agid].name,
              " (Campaign: ", c.campaigns[cid].name, ")">>
      [] lv[1] = "campaign" -> <<"Campaign: ", c.campaigns[cid].name>>
      [] lv[1] = "account" -> <<"Account Level">>
      [] lv[1] = "shared" ->
            <<"Shared List: ", c.campaigns[cid].sharedListNegatives[lv[2]].listName,
              " (Applied to Campaign: ", c.campaigns[cid].name, ")">>

Evaluations(c) ==
    UNION {UNION {UNION {{[cid |-> cid, agid |-> agid, lv |-> lv, k |-> k] :
                            k \in 1..Len(LevelNegatives(c, cid, agid, lv))} :
                         lv \in Levels(c, cid)} :
                  agid \in {a \in DOMAIN c.campaigns[cid].adGroups :
                               c.campaigns[cid].adGroups[a].positives /= <<>>}} :
           cid \in DOMAIN c.campaigns}

EvalNegative(c, e) == LevelNegatives(c, e.cid, e.agid, e.lv)[e.k]
EvalPositives(c, e) == c.campaigns[e.cid].adGroups[e.agid].positives
EvalLocation(c, e) == LevelLocation(c, e.cid, e.agid, e.lv)

Blocks(v, neg, pos) ==
    IF v = "MCC" THEN negativeBlocksPositive(neg, pos)
    ELSE negativeBlocksPositiveSingle(neg, pos)

\* the positions of the positives the evaluation's negative blocks
BlockedAt(v, c, e) ==
    {j \in 1..Len(EvalPositives(c, e)) :
        Blocks(v, EvalNegative(c, e), EvalPositives(c, e)[j])}

\* the row expected of an evaluation that blocks something
ExpectedRow(v, c, e) ==
    LET at == BlockedAt(v, c, e)
        shown == [n \in 1..Cardinality(at) |->
                    EvalPositives(c, e)[CHOOSE j \in at :
                                           Cardinality({i \in at : i <= j}) = n].display]
    IN  <<EvalNegative(c, e).display, EvalLocation(c, e), join(shown, COMMA_SPACE)>>

FindConflictsOf(v, c) == IF v = "MCC" THEN findConflicts(c) ELSE findConflictsSingle(c)

\* C4: in the list findConflicts returns, a row stands for an evaluation of a
\* negative against an ad group at a location exactly when the negative
\* blocks at least one positive of the ad group: one row for every such
\* evaluation, none for any other, and no row with an empty blocked list.
C4_RowIffNegativeBlocksSomePositive ==
    (pc = "analyzed") =>
        LET blocking == {e \in Evaluations(cache) : BlockedAt(variant, cache, e) /= {}}
        IN  /\ Len(conflictsOutput) = Cardinality(blocking)
            /\ \A e \in blocking :
                  \E i \in 1..Len(conflictsOutput) :
                      conflictsOutput[i] = ExpectedRow(variant, cache, e)
            /\ \A i \in 1..Len(conflictsOutput) :
                  /\ conflictsOutput[i][3] /= <<>>
                  /\ \E e \in blocking : conflictsOutput[i] = ExpectedRow(variant, cache, e)

\* C4 witness: findConflicts has returned a row while some evaluated
\* negative blocks nothing.
C4_Witness ==
    /\ pc = "analyzed"
    /\ Len(conflictsOutput) > 0
    /\ \E e \in Evaluations(cache) : BlockedAt(variant, cache, e) = {}

SamePair(r1, r2) == r1[1] = r2[1] /\ r1[2] = r2[2]

\* C5 as claimed: no two rows of the returned list have the same
\* (negative display text, location) pair.
C5_NoTwoRowsShareNegativeAndLocation ==
    (pc = "analyzed") =>
        \A i, j \in 1..Len(conflictsOutput) :
            i /= j => ~SamePair(conflictsOutput[i], conflictsOutput[j])

\* C5 as amended: every evaluation of a negative entry against one ad group
\* at one location yields at most one row, so the rows with a given
\* (negative display text, location) pair are never more than the
\* evaluations having that display text and location.
C5_AtMostOneRowPerEvaluation ==
    (pc = "analyzed") =>
        \A i \in 1..Len(conflictsOutput) :
            Cardinality({j \in 1..Len(conflictsOutput) :
                            SamePair(conflictsOutput[j], conflictsOutput[i])})
              <= Cardinality({e \in Evaluations(cache) :
                                 /\ EvalNegative(cache, e).display = conflictsOutput[i][1]
                                 /\ EvalLocation(cache, e) = conflictsOutput[i][2]})

\* C5 witness: two ad groups of one campaign are blocked by the same
\* campaign-level negative and the returned list holds a row for each.
C5_Witness ==
    /\ pc = "analyzed"
    /\ \E i, j \in 1..Len(conflictsOutput) :
          /\ i /= j
          /\ SamePair(conflictsOutput[i], conflictsOutput[j])
          /\ conflictsOutput[i][2][1] = "Campaign: "

WithoutEmptyAdGroups(c) ==
    [c EXCEPT !.campaigns =
        [cid \in DOMAIN c.campaigns |->
            [c.campaigns[cid] EXCEPT !.adGroups =
                [agid \in {a \in DOMAIN c.campaigns[cid].adGroups :
                              c.campaigns[cid].adGroups[a].positives /= <<>>} |->
                    c.campaigns[cid].adGroups[agid]]]]]

\* C6: an ad group whose positives list is empty contributes no row: the
\* returned list is the one returned for the cache without those ad groups,
\* whatever negatives they, their campaigns, the shared lists and the account
\* hold.
C6_EmptyAdGroupContributesNothing ==
    (pc = "analyzed") =>
        conflictsOutput = FindConflictsOf(variant, WithoutEmptyAdGroups(cache))

\* C6 witness: the analysed cache holds an ad group with negatives and no
\* positives in a campaign that has negatives of its own, and a row was
\* returned.
C6_Witness ==
    /\ pc = "analyzed"
    /\ Len(conflictsOutput) > 0
    /\ \E cid \in DOMAIN cache.campaigns :
          \E agid \in DOMAIN cache.campaigns[cid].adGroups :
              /\ cache.campaigns[cid].adGroups[agid].positives = <<>>
              /\ cache.campaigns[cid].adGroups[agid].negatives /= <<>>
              /\ cache.campaigns[cid].negatives /= <<>>

WithoutUnreferencedLists(c) ==
    LET referenced ==
            {id \in DOMAIN c.sharedLists :
                \E cid \in DOMAIN c.campaigns :
                    \E i \in 1..Len(c.campaigns[cid].sharedListNegatives) :
                        c.campaigns[cid].sharedListNegatives[i].listId = id}
    IN  [c EXCEPT !.sharedLists = [id \in referenced |-> c.sharedLists[id]]]

\* C7: a shared list that no campaign refers to contributes no row: the
\* returned list is the one returned for the cache without those lists.
C7_UnreferencedListContributesNothing ==
    (pc = "analyzed") =>
        conflictsOutput = FindConflictsOf(variant, WithoutUnreferencedLists(cache))

\* C7 witness: the analysed cache holds a shared list no campaign refers to,
\* with a negative that blocks a positive of some ad group.
C7_Witness ==
    /\ pc = "analyzed"
    /\ \E id \in DOMAIN cache.sharedLists \ DOMAIN WithoutUnreferencedLists(cache).sharedLists :
          \E k \in 1..Len(cache.sharedLists[id].negatives) :
              \E cid \in DOMAIN cache.campaigns :
                  \E agid \in DOMAIN cache.campaigns[cid].adGroups :
                      \E j \in 1..Len(cache.campaigns[cid].adGroups[agid].positives) :
                          Blocks(variant, cache.sharedLists[id].negatives[k],
                                 cache.campaigns[cid].adGroups[agid].positives[j])

ValidKeyword(k) == ~k.null /\ k.raw /= <<>>

AllValid(list) == \A i \in 1..Len(list) : ValidKeyword(list[i])

\* C8: every element of every positives or negatives list of the cache (ad
\* group, campaign, shared list, account) is a keyword with non-empty raw
\* text, in both variants, after any sequence of source rows.
C8_CacheHoldsOnlyValidKeywords ==
    /\ \A cid \in DOMAIN cache.campaigns :
          /\ AllValid(cache.campaigns[cid].negatives)
          /\ \A agid \in DOMAIN cache.campaigns[cid].adGroups :
                /\ AllValid(cache.campaigns[cid].adGroups[agid].positives)
                /\ AllValid(cache.campaigns[cid].adGroups[agid].negatives)
    /\ \A id \in DOMAIN cache.sharedLists : AllValid(cache.sharedLists[id].negatives)
    /\ AllValid(cache.accountNegatives)


---------------------------------------------------------------------------
(* Claims about one account's pass (SpecPass) *)

\* the source of the account of the pass
ThisSource == source[ThisAccount.customerId]

\* the account of the pass has been processed
Passed ==
    \/ variant = "MCC" /\ selected /= <<>>
    \/ variant = "SINGLE" /\ pc \in {"done", "crashed"}

\* the queries the variant runs
QueriesRun == IF variant = "MCC" THEN QUERIES ELSE QUERIES_SINGLE

\* C12 as stated: buildDataCache returns null only when the keyword fetch
\* throws; when a later fetch throws, the cache is returned with what was
\* gathered.
C12_NullOnlyWhenKeywordFetchThrows ==
    Passed => (isNull(cache) <=> ThisSource.throwsIn = "fetchKeywords")

\* C12 amended: buildDataCache returns null exactly when one of the queries
\* it runs throws, whichever fetch it belongs to; then nothing gathered is
\* kept, findConflicts does not run and no row is written for the account.
C12_NullWhenAnyFetchThrows ==
    Passed =>
        /\ isNull(cache) <=> ThisSource.throwsIn \in QueriesRun
        /\ isNull(cache) =>
              /\ conflictsOutput = <<>>
              /\ sheet = IF variant = "MCC" THEN <<HEADERS>> ELSE <<HEADERS_SINGLE>>

\* C12 witness: the campaign-negative query threw after the keyword fetch had
\* delivered a positive; the cache is null and only the header is on the sheet.
C12_Witness ==
    /\ Passed
    /\ ThisSource.throwsIn = "fetchCampaignNegatives"
    /\ ThisSource.keywordRows = <<KeywordRow(<<1, 11>>, BroadA, "false")>>
    /\ isNull(cache)
    /\ Len(sheet) = 1

\* a defective record: its processing throws, an id, the text or the match
\* type is missing, or the text fails normalization
Defective(row) ==
    \/ rowThrows(row)
    \/ "campaignId" \in DOMAIN row /\ row.campaignId = 0
    \/ "adGroupId" \in DOMAIN row /\ row.adGroupId = 0
    \/ "listId" \in DOMAIN row /\ row.listId = <<>>
    \/ "sharedSet" \in DOMAIN row /\ row.sharedSet = <<>>
    \/ "text" \in DOMAIN row /\
          (\/ row.text = <<>>
           \/ row.matchType = <<>>
           \/ (IF variant = "MCC" THEN normalizeKeyword(row.text, row.matchType)
               ELSE normalizeKeywordSingle(row.text, row.matchType)).null)

Sound(rows) == SelectSeq(rows, LAMBDA row : ~Defective(row))

\* the same source with its defective records removed
WithoutDefects(src) ==
    Source(Sound(src.keywordRows), Sound(src.campaignNegativeRows),
           Sound(src.sharedListRows), Sound(src.associationRows),
           Sound(src.accountNegativeRows), src.throwsIn)

\* the conflict records of a source on which no query throws and the
\* comparisons go through
ConflictsOf(src) ==
    IF variant = "MCC" THEN findConflicts(buildDataCache(src))
    ELSE findConflictsSingle(buildDataCacheSingle(src))

\* C13: a defective record in any fetch is skipped: the pass completes, and
\* the conflict records are those of the same source without its defective
\* records (both variants).
C13_DefectiveRowsAreSkipped ==
    (Passed /\ ThisSource.throwsIn = "none") =>
        /\ pc /= "crashed"
        /\ conflictsOutput = ConflictsOf(WithoutDefects(ThisSource))

\* C13 in the MCC variant alone
C13_DefectiveRowsAreSkippedMcc ==
    (variant = "MCC") => C13_DefectiveRowsAreSkipped

\* a comparison of the pass raised an exception: the single-account
\* negativeBlocksPositive read a property of a null keyword (that of the MCC
\* variant answers a null keyword with false and raises nothing)
PairRaised ==
    /\ variant = "SINGLE"
    /\ ~isNull(cache)
    /\ findConflictsThrowsSingle(cache)

\* C14: when the comparison of a (negative, positive) pair raises an
\* exception, the pair counts as not blocking, the exception leaves neither
\* checkLevelForConflicts nor findConflicts, and the other pairs are compared
\* and reported as usual.
C14_PairExceptionStaysInside ==
    (Passed /\ ThisSource.throwsIn = "none" /\ PairRaised) =>
        /\ pc = "done"
        /\ conflictsOutput = findConflictsSingle(cache)

---------------------------------------------------------------------------
(* Claims about a run of the MCC variant (SpecMcc, SpecMccFair) *)

\* the account fails: its cache is null or its analysis throws
Fails(src) == src.throwsIn /= "none"

\* as long as the selector has accounts left, the step main takes selects
\* the next one in the selector's order and returns to the loop
NextAccountIsTaken ==
    [][(pc = "accounts" /\ accounts /= <<>>) =>
          /\ selected' = Append(selected, accountName(Head(accounts)))
          /\ accounts' = Tail(accounts)
          /\ pc' = "accounts"]_vars

\* C15: a failing account (null cache or exception) never ends the run:
\* whatever happened to the accounts before it, the next account of the
\* selector is selected and processed, and the run reaches its end with every
\* account of the selector taken.
C15_EveryAccountIsProcessed ==
    /\ NextAccountIsTaken
    /\ <>(pc = "done" /\ accounts = <<>>)

\* C15 witness: the run is over, two accounts were processed in order, the
\* first had a null cache and the second an exception in its analysis.
C15_Witness ==
    /\ pc = "done"
    /\ selected = <<<<"A">>, <<"B">>>>
    /\ source[<<"1">>].throwsIn = "fetchAccountNegatives"
    /\ source[<<"2">>].throwsIn = "findConflicts"
    /\ Len(sheet) = 1

\* the rows of the sheet below the header whose first cell is the name
RowsOf(name) == SelectSeq(Tail(sheet), LAMBDA row : row[1] = name)

\* the accounts main has processed so far
Processed ==
    {a \in AccountPool :
        /\ a.customerId \in DOMAIN source
        /\ \E i \in 1..Len(selected) : selected[i] = accountName(a)}

---------------------------------------------------------------------------
(* Claims about the rows written for an account *)

\* the pass built the index of its account and findConflicts returned
Analysed ==
    /\ Passed
    /\ ~isNull(cache)
    /\ ThisSource.throwsIn = "none"
    /\ pc /= "crashed"

\* the 'no conflicts' row of the variant, for the account of the pass
Sentinel ==
    IF variant = "MCC" THEN <<ThisAccount.name, NO_CONFLICT, <<>>, <<>>>>
    ELSE <<NO_CONFLICTS_FOUND, <<>>, <<>>>>

\* the row of the variant for a conflict record of the account of the pass
RowFor(record) == IF variant = "MCC" THEN <<ThisAccount.name>> \o record ELSE record

OwnRows(a) ==
    IF Fails(source[a.customerId]) THEN <<>>
    ELSE IF findConflicts(buildDataCache(source[a.customerId])) = <<>>
         THEN <<<<accountName(a), NO_CONFLICT, <<>>, <<>>>>>>
    ELSE [i \in 1..Len(findConflicts(buildDataCache(source[a.customerId]))) |->
             <<accountName(a)>> \o findConflicts(buildDataCache(source[a.customerId]))[i]]

\* C18: the rows written for an account of an MCC run depend only on that
\* account's own source records: whatever the other accounts hold and in
\* whatever order they are processed, the rows are those the account gets when
\* its cache is built from empty out of its own records.
C18_RowsDependOnOwnSourceOnly ==
    (pc \in {"accounts", "done"}) =>
        \A a \in Processed : RowsOf(accountName(a)) = OwnRows(a)

\* C18 witness: account B, which has a positive and no negative, was processed
\* after account A, which has a negative blocking the same positive: A has
\* its conflict row and B its 'NO CONFLICT' row.
C18_Witness ==
    /\ pc = "done"
    /\ selected = <<<<"A">>, <<"B">>>>
    /\ source[<<"1">>] = Source(<<KeywordRow(<<1, 11>>, BroadA, "false"),
                                  KeywordRow(<<1, 11>>, BroadA, "true")>>,
                                <<>>, <<>>, <<>>, <<>>, "none")
    /\ source[<<"2">>] = Source(<<KeywordRow(<<1, 11>>, BroadA, "false")>>,
                                <<>>, <<>>, <<>>, <<>>, "none")
    /\ Len(sheet) = 3
    /\ sheet[2][1] = <<"A">> /\ sheet[2][2] = <<"a">>
    /\ sheet[3] = <<<<"B">>, NO_CONFLICT, <<>>, <<>>>>

---------------------------------------------------------------------------
(* Claims about the scope of findConflicts and the blocked list (SpecPass) *)

\* the account-level negatives of the account of the pass, as the source
\* holds them
SourceAccountNegatives == fetchAccountNegatives(newCache, ThisSource).accountNegatives

\* the index of the pass with all four kinds of negatives of the account
FullIndex == [cache EXCEPT !.accountNegatives = SourceAccountNegatives]

\* the negatives the variant puts in scope: the single-account variant has
\* no account level
ScopedIndex ==
    IF variant = "MCC" THEN FullIndex ELSE [cache EXCEPT !.accountNegatives = <<>>]

\* the returned list holds one row for every evaluation of the index whose
\* negative blocks a positive of its ad group, and no other row
ReportsExactly(c) ==
    /\ Len(conflictsOutput)
         = Cardinality({e \in Evaluations(c) : BlockedAt(variant, c, e) /= {}})
    /\ \A e \in Evaluations(c) :
          BlockedAt(variant, c, e) /= {} =>
              \E i \in 1..Len(conflictsOutput) :
                  conflictsOutput[i] = ExpectedRow(variant, c, e)
    /\ \A i \in 1..Len(conflictsOutput) :
          \E e \in Evaluations(c) :
              /\ BlockedAt(variant, c, e) /= {}
              /\ conflictsOutput[i] = ExpectedRow(variant, c, e)

\* C19 as stated: in both variants the positives of an ad group are tested
\* against its own negatives, its campaign's, those of the shared lists its
\* campaign refers to and the account-level negatives ('Account Level'), and
\* against nothing else.
C19_FourNegativeSources == Analysed => ReportsExactly(FullIndex)

\* C19 amended: the MCC variant tests the four kinds of negatives; the
\* single-account variant tests the first three and never reads or reports an
\* account-level negative.  In both, nothing out of scope is reported.
C19_ScopeOfFindConflicts ==
    Analysed =>
        /\ ReportsExactly(ScopedIndex)
        /\ variant = "MCC" => cache.accountNegatives = SourceAccountNegatives
        /\ variant = "SINGLE" =>
              \A i \in 1..Len(conflictsOutput) : conflictsOutput[i][2] /= accountLocation

\* C19 witness: an MCC pass in which an account-level negative blocks a
\* positive and is reported at 'Account Level', while the ad group's own
\* negative blocks nothing.
C19_Witness ==
    /\ Analysed
    /\ variant = "MCC"
    /\ ThisSource.keywordRows = <<KeywordRow(<<1, 12>>, PhraseBA, "false"),
                                  KeywordRow(<<1, 11>>, BroadA, "true")>>
    /\ Len(ThisSource.accountNegativeRows) = 1
    /\ Len(conflictsOutput) = 1
    /\ conflictsOutput[1][2] = accountLocation

\* the positives of the evaluation's ad group that its negative blocks, as
\* the index stores them: in stored order, equal ones as often as stored
BlockedPositives(v, c, e) ==
    SelectSeq(EvalPositives(c, e), LAMBDA pos : Blocks(v, EvalNegative(c, e), pos))

DisplayTexts(keywords) == [i \in 1..Len(keywords) |-> keywords[i].display]

\* C20: the blocked-positives list of every returned record is the sequence
\* of the display texts of the ad group's positives the negative blocks, in
\* the order the index stores them, duplicates kept, joined with ', '.
C20_BlockedListInStoredOrderWithDuplicates ==
    (pc = "analyzed") =>
        \A i \in 1..Len(conflictsOutput) :
            \E e \in Evaluations(cache) :
                /\ conflictsOutput[i][1] = EvalNegative(cache, e).display
                /\ conflictsOutput[i][2] = EvalLocation(cache, e)
                /\ BlockedPositives(variant, cache, e) /= <<>>
                /\ conflictsOutput[i][3] =
                      join(DisplayTexts(BlockedPositives(variant, cache, e)), COMMA_SPACE)

\* C20 witness: an ad group of the MCC variant stores the positive 'a' twice
\* and a negative blocks both: the record lists 'a, a'.
C20_Witness ==
    /\ pc = "analyzed"
    /\ variant = "MCC"
    /\ \E i \in 1..Len(conflictsOutput) :
          conflictsOutput[i][3] = <<"a", ",", " ", "a">>


-----------------------------------------------------------------------------
\* Claims about the keyword index built by the fetch functions (SpecPass)

\* a row the keyword loop takes: it does not throw and has its ids, text
\* and match type
Accepted(row) ==
    /\ ~rowThrows(row)
    /\ row.campaignId /= 0
    /\ row.adGroupId /= 0
    /\ row.text /= <<>>
    /\ row.matchType /= <<>>

NormalizedOf(row) ==
    IF variant = "MCC" THEN normalizeKeyword(row.text, row.matchType)
    ELSE normalizeKeywordSingle(row.text, row.matchType)

\* the valid records of the source for one ad group, by side, in source order
ValidRowsAt(cid, agid, neg) ==
    SelectSeq(ThisSource.keywordRows,
              LAMBDA row : /\ Accepted(row)
                           /\ row.campaignId = cid
                           /\ row.adGroupId = agid
                           /\ ~NormalizedOf(row).null
                           /\ (row.negative = "true") <=> neg)

ExpectedKeywords(cid, agid, neg) ==
    [i \in 1..Len(ValidRowsAt(cid, agid, neg)) |-> NormalizedOf(ValidRowsAt(cid, agid, neg)[i])]

\* the keywords stored in a list, the entries of invalid records left out
StoredKeywords(list) == SelectSeq(list, LAMBDA k : ~k.null)

FirstAccepted(cid, agid) ==
    LET rows == SelectSeq(ThisSource.keywordRows,
                          LAMBDA row : /\ Accepted(row)
                                       /\ row.campaignId = cid
                                       /\ agid \in {0, row.adGroupId})
    IN  rows[1]

\* C21: every valid ad-group keyword record is stored exactly once, in the
\* negatives of the entry of its campaign and ad group when its negative flag
\* is the boolean true and in the positives when the flag is false, missing
\* or not a boolean; the entries of a campaign and of an ad group are made by
\* the first record that names their ids and keep their name and their lists
\* when later records name the same ids.
C21_KeywordRouting ==
    (Passed /\ ~isNull(cache)) =>
        /\ \A i \in 1..Len(ThisSource.keywordRows) :
              Accepted(ThisSource.keywordRows[i]) =>
                  /\ ThisSource.keywordRows[i].campaignId \in DOMAIN cache.campaigns
                  /\ ThisSource.keywordRows[i].adGroupId \in
                        DOMAIN cache.campaigns[ThisSource.keywordRows[i].campaignId].adGroups
        /\ \A cid \in DOMAIN cache.campaigns :
              /\ cache.campaigns[cid].name = FirstAccepted(cid, 0).campaignName
              /\ \A agid \in DOMAIN cache.campaigns[cid].adGroups :
                    LET adGroup == cache.campaigns[cid].adGroups[agid]
                    IN  /\ adGroup.name = FirstAccepted(cid, agid).adGroupName
                        /\ StoredKeywords(adGroup.positives) = ExpectedKeywords(cid, agid, FALSE)
                        /\ StoredKeywords(adGroup.negatives) = ExpectedKeywords(cid, agid, TRUE)

\* a pass over a negative, a record without flag that renames ids 1 and 11,
\* and a record whose flag is a string
C21_Witness ==
    /\ Passed
    /\ ~isNull(cache)
    /\ ThisSource.keywordRows =
          <<KeywordRow(<<1, 11>>, BroadA, "true"),
            [campaignId |-> 1, campaignName |-> <<"X">>, adGroupId |-> 11,
             adGroupName |-> <<"Y">>, text |-> PhraseBA.text, matchType |-> PHRASE,
             negative |-> "undefined"],
            KeywordRow(<<1, 12>>, BroadA, "'true'")>>
    /\ Len(cache.campaigns[1].adGroups[11].positives) = 1
    /\ Len(cache.campaigns[1].adGroups[11].negatives) = 1
    /\ Len(cache.campaigns[1].adGroups[12].positives) = 1
    /\ cache.campaigns[1].name = CampaignNames[1]


\* the campaign ids named by the keyword rows the loop takes
AcceptedCampaignIds ==
    {ThisSource.keywordRows[i].campaignId :
        i \in {j \in 1..Len(ThisSource.keywordRows) : Accepted(ThisSource.keywordRows[j])}}

\* a campaign negative or an association that names a campaign without
\* accepted keyword row
Orphan(row) ==
    /\ ~rowThrows(row)
    /\ row.campaignId /= 0
    /\ row.campaignId \notin AcceptedCampaignIds

\* the same source without the campaign negatives and the associations of
\* campaigns that are not in the index
WithoutOrphans(src) ==
    Source(src.keywordRows,
           SelectSeq(src.campaignNegativeRows, LAMBDA row : ~Orphan(row)),
           src.sharedListRows,
           SelectSeq(src.associationRows, LAMBDA row : ~Orphan(row)),
           src.accountNegativeRows, src.throwsIn)

CacheOf(src) ==
    IF variant = "MCC" THEN buildDataCache(src) ELSE buildDataCacheSingle(src)

\* C22: after buildDataCache the campaigns of the index are exactly those
\* named by the ad-group keyword records the loop accepted; a campaign
\* negative or an association whose campaign id is not in the index creates
\* no campaign entry and changes nothing else: the index is the one built
\* from the same source without these records.
C22_CampaignsComeFromKeywordRows ==
    (Passed /\ ~isNull(cache)) =>
        /\ DOMAIN cache.campaigns = AcceptedCampaignIds
        /\ cache = CacheOf(WithoutOrphans(ThisSource))

\* a campaign negative and an association of campaign 1, a known list, and
\* no keyword row of campaign 1
C22_Witness ==
    /\ Passed
    /\ ~isNull(cache)
    /\ ThisSource.keywordRows = <<>>
    /\ ThisSource.campaignNegativeRows =
          <<[campaignId |-> 1, text |-> BroadA.text, matchType |-> BROAD]>>
    /\ ThisSource.associationRows =
          <<[campaignId |-> 1, sharedSet |-> RESOURCE_PREFIX \o SHARED_SETS \o <<"7">>]>>
    /\ DOMAIN cache.sharedLists = {<<"7">>}
    /\ DOMAIN cache.campaigns = {}


-----------------------------------------------------------------------------
\* Claims about the shared-list references of the index (SpecAssoc)

\* the digits a text ends in
TrailingDigits(name) ==
    LET k == Max({j \in 0..Len(name) :
                     \A i \in (Len(name) - j + 1)..Len(name) : name[i] \in Digits})
    IN  SubSeq(name, Len(name) - k + 1, Len(name))

\* the text ends in 'sharedSets/<digits>'
EndsInSharedSetId(name) ==
    LET k == Len(TrailingDigits(name))
    IN  /\ k > 0
        /\ Len(name) - k >= Len(SHARED_SETS)
        /\ SubSeq(name, Len(name) - k - Len(SHARED_SETS) + 1, Len(name) - k) = SHARED_SETS

\* an association that must add nothing to index c: its resource name does
\* not end in 'sharedSets/<digits>', or its campaign or its list is absent
Idle(row, c) ==
    /\ ~rowThrows(row)
    /\ \/ ~EndsInSharedSetId(row.sharedSet)
       \/ row.campaignId \notin DOMAIN c.campaigns
       \/ TrailingDigits(row.sharedSet) \notin DOMAIN c.sharedLists

\* no campaign holds two references to one list, and every reference names
\* a list of the index
ReferencesAreSound(c) ==
    \A cid \in DOMAIN c.campaigns :
        LET refs == c.campaigns[cid].sharedListNegatives
        IN  /\ \A i, j \in 1..Len(refs) : refs[i].listId = refs[j].listId => i = j
            /\ \A i \in 1..Len(refs) : refs[i].listId \in DOMAIN c.sharedLists

\* C23: after any sequence of association records no campaign's
\* sharedListNegatives holds two entries with the same listId and every
\* entry's listId is a key of sharedLists; an association whose resource name
\* does not end in 'sharedSets/<digits>', or that names an absent campaign or
\* list, leaves the index as it was.
C23_SharedListReferences ==
    /\ [](pc = "fetchAssociations" => ReferencesAreSound(cache))
    /\ [][(rowsLeft' < rowsLeft /\ Idle(nextAssociation, cache)) => cache' = cache]_vars

\* the association of campaign 1 with list 7 came twice, with a malformed
\* resource name in between, and the campaign holds one reference
C23_Witness ==
    /\ pc = "fetchAssociations"
    /\ rowsLeft = 0
    /\ ThisSource.associationRows =
          <<[campaignId |-> 1, sharedSet |-> RESOURCE_PREFIX \o SHARED_SETS \o <<"7">>],
            [campaignId |-> 1, sharedSet |-> RESOURCE_PREFIX \o SHARED_SETS \o <<"7", "/">>],
            [campaignId |-> 1, sharedSet |-> RESOURCE_PREFIX \o SHARED_SETS \o <<"7">>]>>
    /\ 1 \in DOMAIN cache.campaigns
    /\ Len(cache.campaigns[1].sharedListNegatives) = 1


-----------------------------------------------------------------------------
\* Claims about the effect of findConflicts (Spec)

IsPrefix(s, t) == Len(s) <= Len(t) /\ SubSeq(t, 1, Len(s)) = s

\* C25: findConflicts only reads the index: a step of the analysis leaves
\* the index (campaigns, shared lists, account negatives) as it was, and the
\* only thing that grows is the list of conflict records it returns.
C25_FindConflictsReadsOnly ==
    [][pc = "findConflicts" =>
          /\ cache' = cache
          /\ IsPrefix(conflictsOutput, conflictsOutput')
          /\ UNCHANGED <<variant, rowsLeft, others>>]_vars

\* the analysis has returned records for an index with a campaign
C25_Witness ==
    /\ pc = "analyzed"
    /\ conflictsOutput /= <<>>
    /\ DOMAIN cache.campaigns /= {}


-----------------------------------------------------------------------------
\* Claims about the order of the MCC run and its sheet (SpecMcc)

\* the place of an account name among the accounts selected so far
PlaceOf(name) == Min({i \in 1..Len(selected) : selected[i] = name})

\* below the header every row carries the name of a selected account, and
\* the rows of an account selected earlier stand above those of one
\* selected later
BlocksInProcessingOrder ==
    /\ \A i \in 2..Len(sheet) : \E k \in 1..Len(selected) : selected[k] = sheet[i][1]
    /\ \A i, j \in 2..Len(sheet) : i < j => PlaceOf(sheet[i][1]) <= PlaceOf(sheet[j][1])

\* what a step of the account loop does to the sheet: it only adds rows
\* below the rows that are there, and the rows it adds are those of the
\* account it selects
AccountStep ==
    (pc \in {"accounts", "done"}) =>
        /\ IsPrefix(sheet, sheet')
        /\ (selected' /= selected) =>
              SubSeq(sheet', Len(sheet) + 1, Len(sheet')) = OwnRows(Head(accounts))
        /\ (selected' = selected) => (sheet' = sheet)

-----------------------------------------------------------------------------
\* Claims about the two variants of findConflicts (Spec)

\* every keyword of the index is a keyword object with a raw text
ValidIndex(c) ==
    /\ \A cid \in DOMAIN c.campaigns :
          /\ AllValid(c.campaigns[cid].negatives)
          /\ \A agid \in DOMAIN c.campaigns[cid].adGroups :
                /\ AllValid(c.campaigns[cid].adGroups[agid].positives)
                /\ AllValid(c.campaigns[cid].adGroups[agid].negatives)
    /\ \A id \in DOMAIN c.sharedLists : AllValid(c.sharedLists[id].negatives)
    /\ AllValid(c.accountNegatives)

\* C28: on an index that holds only valid keywords and no account-level
\* negatives, findConflicts of the single-account variant and findConflicts
\* of the MCC variant return the same list of conflict records, in the same
\* order (and the single-account one raises nothing).
C28_VariantsAgreeOnSharedLevels ==
    (pc = "analyzed" /\ ValidIndex(cache) /\ cache.accountNegatives = <<>>) =>
        /\ ~findConflictsThrowsSingle(cache)
        /\ conflictsOutput = findConflicts(cache)
        /\ conflictsOutput = findConflictsSingle(cache)

\* the single-account analysis has returned two records, of the ad-group
\* level and of the campaign level, for an index of valid keywords
C28_Witness ==
    /\ pc = "analyzed"
    /\ variant = "SINGLE"
    /\ ValidIndex(cache)
    /\ cache.accountNegatives = <<>>
    /\ Len(conflictsOutput) = 2
    /\ conflictsOutput[1][2][1] = "Ad Group: "
    /\ conflictsOutput[2][2][1] = "Campaign: "


-----------------------------------------------------------------------------
\* Claims about the termination of one account's pass (SpecLoops)

\* a turn of a fetch loop takes exactly one record of its report, and a loop
\* is left only when its report is used up or its query throws
LoopStep ==
    /\ (pc \in Range(LOOPS) /\ pc' = pc) => (rowsLeft' = rowsLeft - 1)
    /\ (pc \in Range(LOOPS) /\ pc' \notin {pc, "skipped"}) => (rowsLeft = 0)

\* C29: one account's pass ends.  Every fetch loop takes each record of its
\* report exactly once, a record that throws included, and ends when the
\* report is used up, so that the index analysed is the one built from all
\* records; findConflicts returns a list of at most one record per negative
\* and ad group; and the pass reaches a written result or a skipped account.
C29_PassTerminates ==
    /\ [][LoopStep]_vars
    /\ [](pc \in {"findConflicts", "written"} =>
             /\ rowsLeft = 0
             /\ cache = buildDataCache(ThisSource))
    /\ [](pc = "written" =>
             /\ conflictsOutput = findConflicts(cache)
             /\ Len(conflictsOutput) <= Cardinality(Evaluations(cache))
             /\ Len(sheet) >= 2)
    /\ [](pc = "skipped" => Len(sheet) = 1)
    /\ <>(pc \in {"written", "skipped"})

\* the pass has written its rows after loops in which records threw
C29_Witness ==
    /\ pc = "written"
    /\ ThisSource.keywordRows =
          <<KeywordRow(<<1, 11>>, BroadA, "false"), ThrowingRow,
            KeywordRow(<<1, 11>>, BroadA, "true")>>
    /\ Len(conflictsOutput) = 1
    /\ Len(sheet) = 2


---------------------------------------------------------------------------
(* Specification of the run state of the MCC Campaign Creator               *)
(* (mcc-location-error-v3.js): successive runs of main over one Campaigns   *)
(* tab that nobody edits between the runs, one step per batch.  A row of    *)
(* the tab is its first two cells (Account CID, Campaign Name); a campaign  *)
(* is its rowNumber; the Run State tab is its cell A2.                      *)

\* rows handed to processCampaignBatch at a time (50 in the source)
BATCH_SIZE == 2

\* data rows of the Campaigns tab
MaxDataRows == 4

\* runs start only while the stored cursor is at most this
MaxCursor == 8

campaignHeaders == <<"Account CID", "Campaign Name">>

\* the data rows: both cells filled, no Account CID, no Campaign Name
\* (each row has content in some column, so that getLastRow counts it)
CampaignRows == {<<<<"1">>, <<"C">>>>, <<<<>>, <<"C">>>>, <<<<"1">>, <<>>>>}

initializeSheets(tab) == IF getLastRow(tab) = 0 THEN <<campaignHeaders>> ELSE tab

\* getValue() || 0 of cell A2: the number stored, 0 for an empty cell
getLastProcessedRow(cell) == cell

\* `!row[0] || !row[1]`
isEmptyRow(row) == row[1] = <<>> \/ row[2] = <<>>

\* the loop of getCampaignData from sheet row r on
RECURSIVE campaignsFrom(_, _)
campaignsFrom(tab, r) ==
    IF r > Len(tab) THEN <<>>
    ELSE (IF isEmptyRow(tab[r]) THEN <<>> ELSE <<[rowNumber |-> r]>>)
         \o campaignsFrom(tab, r + 1)

actualStartRow(startRow) == Max({2, startRow + 1})

\* getRange(actualStartRow, 1, 0, 14): a range of no rows is refused by the
\* spreadsheet service, which ends the run
rangeThrows(tab, startRow) ==
    /\ getLastRow(tab) > startRow
    /\ getLastRow(tab) - actualStartRow(startRow) + 1 = 0

getCampaignData(tab, startRow) ==
    IF getLastRow(tab) <= startRow THEN <<>>
    ELSE campaignsFrom(tab, actualStartRow(startRow))

\* the test of main before resetRunState
resetNeeded(lastProcessedRow, totalRows) ==
    lastProcessedRow >= totalRows \/ lastProcessedRow = 0

\* cell A2 after the test: resetRunState writes 0
currentLastProcessedRow(cell, tab) ==
    IF resetNeeded(getLastProcessedRow(cell), getLastRow(tab))
    THEN 0 ELSE getLastProcessedRow(cell)

\* campaignData.slice(from, to)
slice(data, from, to) == SubSeq(data, from + 1, Min({to, Len(data)}))

\* what main has of the campaigns of a run that has work to do
campaignsOfRun(cell, tab) ==
    IF rangeThrows(tab, currentLastProcessedRow(cell, tab)) THEN <<>>
    ELSE getCampaignData(tab, currentLastProcessedRow(cell, tab))

rowNumbers(batch) == [k \in 1..Len(batch) |-> batch[k].rowNumber]

InitCreator ==
    /\ pc = "idle"
    /\ \E n \in 0..MaxDataRows :
          \/ campaignsSheet \in {<<campaignHeaders>> \o d : d \in [1..n -> CampaignRows]}
          \/ n = 0 /\ campaignsSheet = <<>>
    /\ runStateSheet = 0
    /\ run = NoRun
    /\ attempted = <<>>
    /\ variant = "MCC"
    /\ cache = EmptyCache
    /\ rowsLeft = 0
    /\ conflictsOutput = <<>>
    /\ source = <<>>
    /\ accounts = <<>>
    /\ selected = <<>>
    /\ sheet = <<>>
    /\ text = <<>>
    /\ matchType = <<>>
    /\ normalized = Null
    /\ normalizedSingle = Null
    /\ renormalized = NoRenormalized
    /\ renormalizedSingle = NoRenormalized
    /\ negative = Null
    /\ positive = Null
    /\ blocks = FALSE
    /\ blocksSingle = FALSE

\* what the Campaign Creator leaves alone
creatorOthers == <<variant, cache, rowsLeft, conflictsOutput, text, matchType,
                   normalized, normalizedSingle, renormalized, renormalizedSingle,
                   negative, positive, blocks, blocksSingle, mainVars>>

\* main up to the batch loop
startOfMain ==
    /\ pc = "idle"
    /\ runStateSheet <= MaxCursor
    /\ campaignsSheet' = initializeSheets(campaignsSheet)
    /\ runStateSheet' = currentLastProcessedRow(runStateSheet, campaignsSheet')
    /\ attempted' = IF resetNeeded(getLastProcessedRow(runStateSheet),
                                   getLastRow(campaignsSheet'))
                    THEN <<>> ELSE attempted
    /\ UNCHANGED creatorOthers

\* a run that finds no campaign (or is ended by the range of no rows)
RunWithoutData ==
    /\ startOfMain
    /\ campaignsOfRun(runStateSheet, campaignsSheet') = <<>>
    /\ run' = NoRun
    /\ pc' = "idle"

\* a run that enters the batch loop
RunStart ==
    /\ startOfMain
    /\ campaignsOfRun(runStateSheet, campaignsSheet') # <<>>
    /\ run' = [lastProcessedRow |-> getLastProcessedRow(runStateSheet),
               campaignData |-> campaignsOfRun(runStateSheet, campaignsSheet'),
               i |-> 0]
    /\ pc' = "batch"

\* the cursor main hands to updateRunState after a batch
currentRow(lastProcessedRow, i, batch) == lastProcessedRow + i + Len(batch)

\* one turn of the batch loop: processCampaignBatch, updateRunState, i += BATCH_SIZE
Batch ==
    /\ pc = "batch"
    /\ attempted' = attempted \o rowNumbers(slice(run.campaignData, run.i,
                                                  run.i + BATCH_SIZE))
    /\ runStateSheet' = currentRow(run.lastProcessedRow, run.i,
                                   slice(run.campaignData, run.i, run.i + BATCH_SIZE))
    /\ IF run.i + BATCH_SIZE < Len(run.campaignData)
       THEN run' = [run EXCEPT !.i = @ + BATCH_SIZE] /\ pc' = "batch"
       ELSE run' = NoRun /\ pc' = "idle"
    /\ UNCHANGED campaignsSheet
    /\ UNCHANGED creatorOthers

NextCreator == RunWithoutData \/ RunStart \/ Batch

SpecCreator == InitCreator /\ [][NextCreator]_vars

---------------------------------------------------------------------------
(* Claims about the run state of the MCC Campaign Creator (SpecCreator)     *)

NoDuplicates(s) == \A a, b \in 1..Len(s) : s[a] = s[b] => a = b

\* the sheet rows getCampaignData does not skip
DataRowsOf(tab) == {r \in 2..Len(tab) : ~isEmptyRow(tab[r])}

\* the cursor is the sheet row of the data row handled last
CursorIsLastRowHandled ==
    attempted # <<>> => runStateSheet = attempted[Len(attempted)]

\* no data row is handled twice between two resets
NoRowAttemptedTwice == NoDuplicates(attempted)

\* no data row before the one handled last is left out
NoRowSkipped ==
    \A r \in DataRowsOf(campaignsSheet) :
        (attempted # <<>> /\ r < attempted[Len(attempted)]) => r \in Range(attempted)

\* C30: over successive runs on an unchanged Campaigns sheet, the cursor
\* stored in the Run State tab after each batch is the sheet row number of
\* the last data row handled, so that each run resumes at the row after it:
\* no data row is attempted twice before the cursor is reset, and none is
\* skipped.
C30_CursorResumesAfterLastRow ==
    /\ CursorIsLastRowHandled
    /\ NoRowAttemptedTwice
    /\ NoRowSkipped

=============================================================================
